---- MODULE Spec2Model ----
(***************************************************************************)
(* renameThemAll: the name inspector / rebuilder                           *)
(* (name_structure_inspector.py) and the uniqueness resolution of the      *)
(* outliner (outliner_logics.py, outliner_custom_tree_widget.py).          *)
(*                                                                         *)
(* A Python str is a sequence of one-character strings.  A Python dict is  *)
(* a sequence of entries [k |-> key, v |-> value] in insertion order.      *)
(* Part indices are 0-based as in the source; sequences are 1-based.       *)
(***************************************************************************)
EXTENDS Integers, Sequences, FiniteSets, TLC

\* ------------------------------------------------------------------ strings

Digits == {"0", "1", "2", "3", "4", "5", "6", "7", "8", "9"}

\* str.isdigit(): non-empty and every character a digit
IsDigitStr(s) == Len(s) > 0 /\ \A i \in 1..Len(s) : s[i] \in Digits

\* str.startswith / str.endswith
StartsWith(s, v) == Len(v) <= Len(s) /\ SubSeq(s, 1, Len(v)) = v
EndsWith(s, v) == Len(v) <= Len(s) /\ SubSeq(s, Len(s) - Len(v) + 1, Len(s)) = v

\* s[n:] and s[:-n]; s[:-0] is the empty string in Python
DropFirst(s, n) == SubSeq(s, n + 1, Len(s))
DropLast(s, n) == IF n = 0 THEN <<>> ELSE SubSeq(s, 1, Len(s) - n)

\* name.split("_")
RECURSIVE Split(_)
Split(s) ==
  IF s = <<>> THEN << <<>> >>
  ELSE LET r == Split(Tail(s)) IN
       IF Head(s) = "_" THEN << <<>> >> \o r
       ELSE << <<Head(s)>> \o Head(r) >> \o Tail(r)

\* "_".join(segments)
RECURSIVE Join(_)
Join(segs) ==
  IF Len(segs) = 0 THEN <<>>
  ELSE IF Len(segs) = 1 THEN segs[1]
  ELSE segs[1] \o <<"_">> \o Join(Tail(segs))

\* str.strip("_")
RECURSIVE LStrip(_)
LStrip(s) == IF s # <<>> /\ Head(s) = "_" THEN LStrip(Tail(s)) ELSE s
RECURSIVE RStrip(_)
RStrip(s) == IF s # <<>> /\ s[Len(s)] = "_" THEN RStrip(SubSeq(s, 1, Len(s) - 1)) ELSE s
Strip(s) == RStrip(LStrip(s))

\* ------------------------------------------------------------ default settings

DefaultStructure ==
  << <<"symmetry">>, <<"type">>,
     <<"name", "zoning", "orientation", "alphabetical_inc">>,
     <<"numerical_inc">> >>
DefaultOptional == {"symmetry", "zoning", "orientation", "alphabetical_inc", "numerical_inc"}
DefaultMandatory == {"type", "name"}
DefaultGroupType ==
  << <<"p","r","x">>, <<"p","r","p">>, <<"g","r","p">>, <<"c","t","r","l">>,
     <<"p","r","o","x","y">>, <<"r","e","n","d","e","r">> >>
DefaultMeshType == << <<"h","i">>, <<"l","o">> >>
DefaultZoningSingle ==
  << <<"L","t">>, <<"C","t">>, <<"R","t">>, <<"T","p">>,
     <<"M","d">>, <<"B","t">>, <<"F","t">>, <<"B","k">> >>
DefaultOrientSingle == << <<"N","t">>, <<"W","t">>, <<"E","t">>, <<"S","t">> >>
DefaultSymmetryOptions == << <<"L">>, <<"R">> >>
DefaultNumIncLenght == 3

\* list("ABCDEFGHIJKLMNOPQRSTUVWXYZ")
Letters ==
  << "A","B","C","D","E","F","G","H","I","J","K","L","M",
     "N","O","P","Q","R","S","T","U","V","W","X","Y","Z" >>
RECURSIVE Singletons(_)
Singletons(s) == IF s = <<>> THEN <<>> ELSE << <<Head(s)>> >> \o Singletons(Tail(s))
LetterValues == Singletons(Letters)

\* The preset in force: the structure (already split into parts and
\* categories), the optional / mandatory categories, the vocabularies and the
\* width of the numerical increment.
DefaultPreset ==
  [ parts |-> DefaultStructure, optional |-> DefaultOptional,
    mandatory |-> DefaultMandatory,
    SYMMETRY_OPTIONS |-> DefaultSymmetryOptions,
    ALL_TYPES_DICT |-> DefaultGroupType \o DefaultMeshType,
    ZONING_SINGLE_DICT |-> DefaultZoningSingle,
    ORIENT_SINGLE_DICT |-> DefaultOrientSingle,
    INC_NUMBER_OF_DIGITS |-> DefaultNumIncLenght ]

\* User presets: another structure, other optional categories, another width.
Presets ==
  << DefaultPreset,
     \* [type]_[name]
     [DefaultPreset EXCEPT !.parts = << <<"type">>, <<"name">> >>],
     \* [type]_[name][zoning]
     [DefaultPreset EXCEPT !.parts = << <<"type">>, <<"name", "zoning">> >>],
     \* [type]_[symmetry][name][alphabetical_inc]
     [DefaultPreset EXCEPT
        !.parts = << <<"type">>, <<"symmetry", "name", "alphabetical_inc">> >>],
     \* [symmetry]_[type]_[name], symmetry mandatory, increments of 4 digits
     [DefaultPreset EXCEPT
        !.parts = << <<"symmetry">>, <<"type">>, <<"name">> >>,
        !.optional = DefaultOptional \ {"symmetry"},
        !.mandatory = DefaultMandatory \cup {"symmetry"},
        !.INC_NUMBER_OF_DIGITS = 4],
     \* [name]_[numerical_inc]
     [DefaultPreset EXCEPT !.parts = << <<"name">>, <<"numerical_inc">> >>],
     \* [type]_[name]_[numerical_inc], increments of 4 digits
     [DefaultPreset EXCEPT
        !.parts = << <<"type">>, <<"name">>, <<"numerical_inc">> >>,
        !.INC_NUMBER_OF_DIGITS = 4],
     \* [symmetry]_[type], symmetry mandatory: no part declares 'name'
     [DefaultPreset EXCEPT
        !.parts = << <<"symmetry">>, <<"type">> >>,
        !.optional = DefaultOptional \ {"symmetry"},
        !.mandatory = DefaultMandatory \cup {"symmetry"}],
     \* [symmetry]_[type]_[numerical_inc]: no part declares 'name'
     [DefaultPreset EXCEPT
        !.parts = << <<"symmetry">>, <<"type">>, <<"numerical_inc">> >>],
     \* [symmetry][type][zoning]_[name]_[orientation][numerical_inc]
     [DefaultPreset EXCEPT
        !.parts = << <<"symmetry", "type", "zoning">>, <<"name">>,
                     <<"orientation", "numerical_inc">> >>],
     \* [name]_[numerical_inc], increments of 1 digit
     [DefaultPreset EXCEPT
        !.parts = << <<"name">>, <<"numerical_inc">> >>,
        !.INC_NUMBER_OF_DIGITS = 1],
     \* [name]_[numerical_inc]_[alphabetical_inc]
     [DefaultPreset EXCEPT
        !.parts = << <<"name">>, <<"numerical_inc">>, <<"alphabetical_inc">> >>] >>

\* the presets some part of which declares 'name', as set_structure requires,
\* and the others
WellFormedPresets ==
  { p \in 1..Len(Presets) :
      \E i \in 1..Len(Presets[p].parts) : \E j \in 1..Len(Presets[p].parts[i]) :
        Presets[p].parts[i][j] = "name" }
MalformedPresets == (1..Len(Presets)) \ WellFormedPresets

\* ------------------------------------------------------------------ dicts

Keys(d) == {d[i].k : i \in 1..Len(d)}
Get(d, key) == d[CHOOSE i \in 1..Len(d) : d[i].k = key].v
\* d[key] = value: an existing key keeps its place, a new key goes last
RECURSIVE Put(_, _, _)
Put(d, key, value) ==
  IF d = <<>> THEN << [k |-> key, v |-> value] >>
  ELSE IF Head(d).k = key THEN << [k |-> key, v |-> value] >> \o Tail(d)
  ELSE << Head(d) >> \o Put(Tail(d), key, value)
\* del d[key]
RECURSIVE Del(_, _)
Del(d, key) ==
  IF d = <<>> THEN <<>>
  ELSE IF Head(d).k = key THEN Tail(d) ELSE <<Head(d)>> \o Del(Tail(d), key)
RECURSIVE KeyList(_)
KeyList(d) == IF d = <<>> THEN <<>> ELSE << Head(d).k >> \o KeyList(Tail(d))
RECURSIVE Reverse(_)
Reverse(s) == IF s = <<>> THEN <<>> ELSE Reverse(Tail(s)) \o << Head(s) >>

\* part_dict[part_index][key] = value (part_index 0-based)
ReplaceAt(s, i, e) == SubSeq(s, 1, i - 1) \o << e >> \o SubSeq(s, i + 1, Len(s))
SetPart(pd, part_index, part) ==
  [ parts |-> ReplaceAt(pd.parts, part_index + 1, part),
    bad_naming |-> pd.bad_naming, err |-> pd.err ]
SetCat(pd, part_index, key, value) ==
  SetPart(pd, part_index, Put(pd.parts[part_index + 1], key, value))
Raised(pd) == [ parts |-> pd.parts, bad_naming |-> pd.bad_naming, err |-> TRUE ]
Part(pd, part_index) == pd.parts[part_index + 1]

\* -------------------------------------------------------- value separation

\* separate_number
separate_number(part_to_separate, number_of_digits, start) ==
  IF start /\ Len(part_to_separate) >= number_of_digits
       /\ IsDigitStr(SubSeq(part_to_separate, 1, number_of_digits))
  THEN << SubSeq(part_to_separate, 1, number_of_digits),
          DropFirst(part_to_separate, number_of_digits) >>
  ELSE IF ~start /\ Len(part_to_separate) >= number_of_digits
       /\ IsDigitStr(SubSeq(part_to_separate,
                            Len(part_to_separate) - number_of_digits + 1,
                            Len(part_to_separate)))
  THEN << SubSeq(part_to_separate, Len(part_to_separate) - number_of_digits + 1,
                 Len(part_to_separate)),
          DropLast(part_to_separate, number_of_digits) >>
  ELSE << <<>>, part_to_separate >>

\* separate_value with no return inside the loop: the last value of the list
\* that matches
RECURSIVE separate_value_last_match(_, _, _)
separate_value_last_match(part_to_separate, value_list, start) ==
  IF value_list = <<>> THEN << <<>>, part_to_separate >>
  ELSE LET value == value_list[Len(value_list)] IN
       IF start /\ StartsWith(part_to_separate, value)
       THEN << value, DropFirst(part_to_separate, Len(value)) >>
       ELSE IF ~start /\ EndsWith(part_to_separate, value)
       THEN << value, DropLast(part_to_separate, Len(value)) >>
       ELSE separate_value_last_match(part_to_separate,
                                      SubSeq(value_list, 1, Len(value_list) - 1), start)

\* separate_value: the first value of the list, in list order, that matches
RECURSIVE separate_value(_, _, _)
separate_value(part_to_separate, value_list, start) ==
  IF value_list = <<>> THEN << <<>>, part_to_separate >>
  ELSE LET value == Head(value_list) IN
       IF start /\ StartsWith(part_to_separate, value)
       THEN << value, DropFirst(part_to_separate, Len(value)) >>
       ELSE IF ~start /\ EndsWith(part_to_separate, value)
       THEN << value, DropLast(part_to_separate, Len(value)) >>
       ELSE separate_value(part_to_separate, Tail(value_list), start)

\* separate_suffixes_recurcive: rest is the tail of value_list still to try in
\* the "for value in value_list" loop of the current call
RECURSIVE separate_suffixes_loop(_, _, _, _, _)
separate_suffixes_loop(part_to_separate, value_list, rest, backup_suffix, start) ==
  IF rest = <<>> THEN << backup_suffix, part_to_separate >>
  ELSE LET value == Head(rest) IN
       IF start /\ StartsWith(part_to_separate, value)
       THEN separate_suffixes_loop(DropFirst(part_to_separate, Len(value)),
                                   value_list, value_list,
                                   backup_suffix \o value, TRUE)
       ELSE IF ~start /\ EndsWith(part_to_separate, value)
       THEN separate_suffixes_loop(DropLast(part_to_separate, Len(value)),
                                   value_list, value_list,
                                   value \o backup_suffix, FALSE)
       ELSE separate_suffixes_loop(part_to_separate, value_list, Tail(rest),
                                   backup_suffix, start)

separate_suffixes_recurcive(part_to_separate, value_list, backup_suffix, start) ==
  separate_suffixes_loop(part_to_separate, value_list, value_list, backup_suffix, start)

separate_value_recursive(part_to_separate, value_list, start) ==
  separate_suffixes_recurcive(part_to_separate, value_list, <<>>, start)

\* remove_prefix
remove_prefix(string, prefix) ==
  IF prefix # <<>> /\ StartsWith(string, prefix)
  THEN DropFirst(string, Len(prefix)) ELSE string

\* ------------------------------------------------------------ the inspector

\* handle_remaining_part
handle_remaining_part(part_dict, part_index, part_to_separate) ==
  IF "name" \notin Keys(Part(part_dict, part_index))
  THEN SetCat(part_dict, part_index, "bad_naming", part_to_separate)
  ELSE part_dict

\* part_dict[part_index][key], part_to_separate = <the separation>
set_separated(part_dict, part_index, key, separated) ==
  [pd |-> SetCat(part_dict, part_index, key, separated[1]), rest |-> separated[2]]

\* process_category: the result is [pd |-> part_dict, rest |-> part_to_separate]
process_category(C, key, part_dict, part_index, part_to_separate, start) ==
  IF key \in {"symmetry", "type", "zoning", "orientation",
              "alphabetical_inc", "numerical_inc"}
  THEN set_separated(part_dict, part_index, key,
         IF key = "orientation"
         THEN separate_value_recursive(part_to_separate, C.ORIENT_SINGLE_DICT, start)
         ELSE IF key = "zoning"
         THEN separate_value_recursive(part_to_separate, C.ZONING_SINGLE_DICT, start)
         ELSE IF key = "numerical_inc"
         THEN separate_number(part_to_separate, C.INC_NUMBER_OF_DIGITS, start)
         ELSE IF key = "symmetry"
         THEN separate_value(part_to_separate, C.SYMMETRY_OPTIONS, start)
         ELSE IF key = "type"
         THEN separate_value(part_to_separate, C.ALL_TYPES_DICT, start)
         ELSE separate_value(part_to_separate, LetterValues, start))
  ELSE IF key = "name"
  THEN [pd |-> SetCat(part_dict, part_index, "name", part_to_separate), rest |-> <<>>]
  ELSE [pd |-> part_dict, rest |-> part_to_separate]

\* separate_category_start: keys is what is left of "for key in
\* part_dict[part_index]", r holds part_dict and part_to_separate
RECURSIVE separate_category_start_loop(_, _, _, _)
separate_category_start_loop(C, keys, r, part_index) ==
  IF keys = <<>> THEN r
  ELSE IF Head(keys) = "name"
  THEN process_category(C, "name", r.pd, part_index, r.rest, TRUE)
  ELSE separate_category_start_loop(C, Tail(keys),
         process_category(C, Head(keys), r.pd, part_index, r.rest, TRUE), part_index)

separate_category_start(C, part_dict, part_index, part_to_separate) ==
  separate_category_start_loop(C, KeyList(Part(part_dict, part_index)),
                               [pd |-> part_dict, rest |-> part_to_separate],
                               part_index)

\* separate_category_end: keys is what is left of "for key in reversed(...)",
\* r holds part_dict and part_to_separate
RECURSIVE separate_category_end_loop(_, _, _, _, _)
separate_category_end_loop(C, keys, r, part_index, prefix_name) ==
  IF keys = <<>> THEN r
  ELSE IF Head(keys) = "name"
  THEN [pd |-> SetCat(r.pd, part_index, "name", remove_prefix(r.rest, prefix_name)),
        rest |-> r.rest]
  ELSE separate_category_end_loop(C, Tail(keys),
         process_category(C, Head(keys), r.pd, part_index, r.rest, FALSE),
         part_index, prefix_name)

separate_category_end(C, part_dict, part_index, part_to_separate, prefix_name) ==
  separate_category_end_loop(C, Reverse(KeyList(Part(part_dict, part_index))),
                             [pd |-> part_dict, rest |-> part_to_separate],
                             part_index, prefix_name)

\* "if part_to_separate: part_dict = handle_remaining_part(...)"
separate_category_rest(r, part_index) ==
  IF r.rest # <<>> THEN handle_remaining_part(r.pd, part_index, r.rest) ELSE r.pd

\* separate_category reading the segment after the one asked for
separate_category_next_segment(C, name, part_index, name_part_index, part_dict, start, prefix_name) ==
  IF name_part_index + 1 >= Len(Split(name)) THEN Raised(part_dict)
  ELSE separate_category_rest(
         IF start
         THEN separate_category_start(C, part_dict, part_index,
                                      Split(name)[name_part_index + 2])
         ELSE separate_category_end(C, part_dict, part_index,
                                    Split(name)[name_part_index + 2], prefix_name),
         part_index)

\* separate_category; name_parts[name_part_index] raises IndexError when the
\* name has no such segment: the dict is then marked err
separate_category(C, name, part_index, name_part_index, part_dict, start, prefix_name) ==
  IF name_part_index >= Len(Split(name)) THEN Raised(part_dict)
  ELSE separate_category_rest(
         IF start
         THEN separate_category_start(C, part_dict, part_index,
                                      Split(name)[name_part_index + 1])
         ELSE separate_category_end(C, part_dict, part_index,
                                    Split(name)[name_part_index + 1], prefix_name),
         part_index)

\* "for category in categories: part_dict = separate_category(...)", n times
RECURSIVE separate_category_times(_, _, _, _, _, _, _, _)
separate_category_times(n, C, name, part_index, name_part_index, part_dict, start, prefix_name) ==
  IF n = 0 THEN part_dict
  ELSE separate_category_times(n - 1, C, name, part_index, name_part_index,
         separate_category(C, name, part_index, name_part_index, part_dict, start,
                           prefix_name),
         start, prefix_name)

\* index of a key in a key list, 1-based (list.index)
IndexOf(keys, key) == CHOOSE i \in 1..Len(keys) : keys[i] = key

\* get_before_after_name / get_before_after_mandatory: <<before, after>>
get_before_after_mandatory(mandatory_name, index, part_dict) ==
  LET categories_in_part == KeyList(Part(part_dict, index))
      mandatory_position == IndexOf(categories_in_part, mandatory_name)
  IN << SubSeq(categories_in_part, 1, mandatory_position - 1),
        SubSeq(categories_in_part, mandatory_position + 1, Len(categories_in_part)) >>

get_before_after_name(index, part_dict) ==
  get_before_after_mandatory("name", index, part_dict)

\* prefix_name += part_dict[index][category] for category in before_name_categories
RECURSIVE ConcatValues(_, _)
ConcatValues(part, categories) ==
  IF categories = <<>> THEN <<>>
  ELSE Get(part, Head(categories)) \o ConcatValues(part, Tail(categories))

\* handle_bad_naming
RECURSIVE BlankCategories(_)
BlankCategories(d) ==
  IF d = <<>> THEN <<>>
  ELSE << IF Head(d).k # "bad_naming" THEN [k |-> Head(d).k, v |-> <<>>] ELSE Head(d) >>
       \o BlankCategories(Tail(d))
handle_bad_naming(part_dict, part_index) ==
  SetPart(part_dict, part_index,
          Del(BlankCategories(Part(part_dict, part_index)), "bad_naming"))

\* ------------------------------------------- fewer name segments than parts

RECURSIVE traverse_name_parts(_, _, _, _, _, _, _, _)

\* check_optional_part: the loop over the categories of the part;
\* the result is <<part_dict, part_filled>>
RECURSIVE check_optional_loop(_, _, _, _, _, _, _)
\* what follows one call of separate_category in the loop
check_optional_step(C, categories, name, part_index, in_name_pos, pd, part_filled) ==
  IF pd.err THEN << pd, part_filled >>
  ELSE check_optional_loop(C, Tail(categories), name, part_index, in_name_pos, pd,
         part_filled \/ Get(Part(pd, part_index), Head(categories)) # <<>>)

check_optional_loop(C, categories, name, part_index, in_name_pos, part_dict, part_filled) ==
  IF categories = <<>> THEN << part_dict, part_filled >>
  ELSE check_optional_step(C, categories, name, part_index, in_name_pos,
         separate_category(C, name, part_index, in_name_pos, part_dict, TRUE, <<>>),
         part_filled)

\* check_optional_part after the loop; r is <<part_dict, part_filled>>
check_optional_next(C, name, len_name_parts, part_index, in_name_pos, optional_parts, mandatory_parts, r) ==
  IF r[1].err THEN r[1]
  ELSE IF r[2]
  THEN traverse_name_parts(C, name, len_name_parts, part_index + 1, in_name_pos + 1,
                           optional_parts, mandatory_parts, r[1])
  ELSE IF "bad_naming" \in Keys(Part(r[1], part_index)) /\ part_index # len_name_parts
  THEN traverse_name_parts(C, name, len_name_parts, part_index + 1, in_name_pos,
                           optional_parts, mandatory_parts,
                           handle_bad_naming(r[1], part_index))
  ELSE traverse_name_parts(C, name, len_name_parts, part_index + 1, in_name_pos + 1,
                           optional_parts, mandatory_parts, r[1])

check_optional_part(C, name, len_name_parts, part_index, in_name_pos, optional_parts, mandatory_parts, part_dict) ==
  check_optional_next(C, name, len_name_parts, part_index, in_name_pos,
                      optional_parts, mandatory_parts,
                      check_optional_loop(C, KeyList(Part(part_dict, part_index)), name,
                                          part_index, in_name_pos, part_dict, FALSE))

\* The matching of a part around its mandatory category (handle_name_category,
\* handle_other_mandatory_category, and the same statements in the N == P
\* branch of inspect_name_structure), statement by statement.
\* "if before_name_categories: for category in ...: separate_category(start=True)"
match_before(C, name, part_index, in_name_pos, part_dict, before_name_categories) ==
  IF before_name_categories # <<>>
  THEN separate_category_times(Len(before_name_categories), C, name, part_index,
                               in_name_pos, part_dict, TRUE, <<>>)
  ELSE part_dict

\* "if after_name_categories: if before_name_categories: prefix_name += ..."
match_prefix(part_index, part_dict, before_name_categories, after_name_categories, prefix_name) ==
  IF after_name_categories # <<>> /\ before_name_categories # <<>> /\ ~part_dict.err
  THEN prefix_name \o ConcatValues(Part(part_dict, part_index), before_name_categories)
  ELSE prefix_name

\* "if after_name_categories: for category in ...: separate_category(start=False)"
match_after(C, name, part_index, in_name_pos, part_dict, after_name_categories, prefix_name) ==
  IF after_name_categories # <<>>
  THEN separate_category_times(Len(after_name_categories), C, name, part_index,
                               in_name_pos, part_dict, FALSE, prefix_name)
  ELSE part_dict

\* "if not before_name_categories and not after_name_categories:
\*    part_dict[part_index][category] = name_parts[in_name_pos]"
match_alone(name, part_index, in_name_pos, part_dict, before_name_categories, after_name_categories, category) ==
  IF before_name_categories = <<>> /\ after_name_categories = <<>>
  THEN IF in_name_pos >= Len(Split(name)) THEN Raised(part_dict)
       ELSE SetCat(part_dict, part_index, category, Split(name)[in_name_pos + 1])
  ELSE part_dict

\* the statements after prefix_name is known; the result is
\* <<part_dict, prefix_name>>
match_name_from_prefix(C, name, part_index, in_name_pos, part_dict, before_name_categories, after_name_categories, prefix_name) ==
  << match_alone(name, part_index, in_name_pos,
                 match_after(C, name, part_index, in_name_pos, part_dict,
                             after_name_categories, prefix_name),
                 before_name_categories, after_name_categories, "name"),
     prefix_name >>

\* the statements after the categories before 'name' were matched
match_name_from_before(C, name, part_index, in_name_pos, part_dict, before_name_categories, after_name_categories, prefix_name) ==
  match_name_from_prefix(C, name, part_index, in_name_pos, part_dict,
                         before_name_categories, after_name_categories,
                         match_prefix(part_index, part_dict, before_name_categories,
                                      after_name_categories, prefix_name))

\* prefix_name is the accumulator the caller holds; the result is
\* <<part_dict, prefix_name>>
match_name_part(C, name, part_index, in_name_pos, part_dict, prefix_name) ==
  match_name_from_before(C, name, part_index, in_name_pos,
    match_before(C, name, part_index, in_name_pos, part_dict,
                 get_before_after_name(part_index, part_dict)[1]),
    get_before_after_name(part_index, part_dict)[1],
    get_before_after_name(part_index, part_dict)[2],
    prefix_name)

\* "traverse_name_parts(..., part_index + 1, in_name_pos + 1, ...)" once the
\* part is matched
traverse_next(C, name, len_name_parts, part_index, in_name_pos, optional_parts, mandatory_parts, part_dict) ==
  IF part_dict.err THEN part_dict
  ELSE traverse_name_parts(C, name, len_name_parts, part_index + 1, in_name_pos + 1,
                           optional_parts, mandatory_parts, part_dict)

\* handle_name_category
handle_name_category(C, name, len_name_parts, part_index, in_name_pos, optional_parts, mandatory_parts, part_dict) ==
  traverse_next(C, name, len_name_parts, part_index, in_name_pos, optional_parts,
                mandatory_parts,
                match_name_part(C, name, part_index, in_name_pos, part_dict, <<>>)[1])

\* the last category of the part that is in mandatory_categories, 0 when
\* there is none
LastMandatory(keys, mandatory_categories) ==
  LET found == {i \in 1..Len(keys) : keys[i] \in mandatory_categories}
  IN IF found = {} THEN 0 ELSE CHOOSE i \in found : \A j \in found : j <= i

\* handle_other_mandatory_category: before / after are those of the last
\* category of the part that is in mandatory_categories; when there is none
\* the two lists are unbound and the function raises.  The category that
\* takes a segment alone is the last key the first loop went through.
handle_other_mandatory_category(C, name, len_name_parts, part_index, in_name_pos, optional_parts, mandatory_parts, part_dict, mandatory_categories) ==
  LET keys == KeyList(Part(part_dict, part_index))
      last == LastMandatory(keys, mandatory_categories)
      before_name_categories == SubSeq(keys, 1, last - 1)
      after_name_categories == SubSeq(keys, last + 1, Len(keys))
  IN IF last = 0 THEN Raised(part_dict)
     ELSE traverse_next(C, name, len_name_parts, part_index, in_name_pos,
            optional_parts, mandatory_parts,
            match_alone(name, part_index, in_name_pos,
              match_after(C, name, part_index, in_name_pos,
                match_before(C, name, part_index, in_name_pos, part_dict,
                             before_name_categories),
                after_name_categories, <<>>),
              before_name_categories, after_name_categories, keys[Len(keys)]))

\* check_mandatory_part
check_mandatory_part(C, name, len_name_parts, part_index, in_name_pos, optional_parts, mandatory_parts, part_dict) ==
  IF "name" \in Keys(Part(part_dict, part_index))
  THEN handle_name_category(C, name, len_name_parts, part_index, in_name_pos,
                            optional_parts, mandatory_parts, part_dict)
  ELSE handle_other_mandatory_category(C, name, len_name_parts, part_index,
                            in_name_pos, optional_parts, mandatory_parts, part_dict,
                            C.mandatory)

\* traverse_name_parts
traverse_name_parts(C, name, len_name_parts, part_index, in_name_pos, optional_parts, mandatory_parts, part_dict) ==
  IF in_name_pos = Len(Split(name)) THEN part_dict
  ELSE IF part_index \in optional_parts
  THEN check_optional_part(C, name, len_name_parts, part_index, in_name_pos,
                           optional_parts, mandatory_parts, part_dict)
  ELSE IF part_index \in mandatory_parts
  THEN check_mandatory_part(C, name, len_name_parts, part_index, in_name_pos,
                            optional_parts, mandatory_parts, part_dict)
  ELSE part_dict

\* ------------------------------------------------- inspect_name_structure

\* part_dict[part_index] = {category: '' ...} for every part of the structure
RECURSIVE EmptyPart(_)
EmptyPart(categories) ==
  IF categories = <<>> THEN <<>>
  ELSE << [k |-> Head(categories), v |-> <<>>] >> \o EmptyPart(Tail(categories))
RECURSIVE EmptyParts(_)
EmptyParts(name_parts) ==
  IF name_parts = <<>> THEN <<>>
  ELSE << EmptyPart(Head(name_parts)) >> \o EmptyParts(Tail(name_parts))
EmptyPartDict(C) ==
  [ parts |-> EmptyParts(C.parts), bad_naming |-> <<>>, err |-> FALSE ]

\* optional_parts / mandatory_parts (0-based part indices)
OptionalParts(C) ==
  {i \in 0..(Len(C.parts) - 1) :
     \A j \in 1..Len(C.parts[i + 1]) : C.parts[i + 1][j] \in C.optional}
MandatoryParts(C) == (0..(Len(C.parts) - 1)) \ OptionalParts(C)

\* the N == P branch: "for index in list(part_dict.keys())"; r is
\* <<part_dict, prefix_name>>
RECURSIVE exact_loop(_, _, _, _)
exact_loop(C, name, index, r) ==
  IF index >= Len(C.parts) \/ r[1].err THEN r[1]
  ELSE IF "name" \in Keys(Part(r[1], index))
  THEN exact_loop(C, name, index + 1,
                  match_name_part(C, name, index, index, r[1], r[2]))
  ELSE exact_loop(C, name, index + 1,
                  << separate_category_times(Len(Part(r[1], index)), C, name, index,
                                             index, r[1], TRUE, <<>>),
                     r[2] >>)

\* the N < M branch giving 'name' the first segment only
underfilled_first_segment(C, name, part_dict) ==
  LET with_name == {i \in 0..(Len(C.parts) - 1) : "name" \in Keys(Part(part_dict, i))}
  IN IF with_name = {} THEN part_dict
     ELSE SetCat(part_dict, CHOOSE i \in with_name : \A j \in with_name : i <= j,
                 "name", Split(name)[1])

\* the N < M branch: the first part that declares 'name' takes the whole name
underfilled(C, name, part_dict) ==
  LET with_name == {i \in 0..(Len(C.parts) - 1) : "name" \in Keys(Part(part_dict, i))}
  IN IF with_name = {} THEN part_dict
     ELSE SetCat(part_dict, CHOOSE i \in with_name : \A j \in with_name : i <= j,
                 "name", name)

inspect_name_structure(C, name) ==
  LET len_name_parts == Len(C.parts)
      name_lenght == Len(Split(name))
      part_dict == EmptyPartDict(C)
      optional_parts == OptionalParts(C)
      mandatory_parts == MandatoryParts(C)
  IN IF name_lenght < Cardinality(mandatory_parts)
     THEN underfilled(C, name, part_dict)
     ELSE IF name_lenght > len_name_parts
     THEN [ parts |-> part_dict.parts, bad_naming |-> <<name>>, err |-> FALSE ]
     ELSE IF name_lenght = len_name_parts
     THEN exact_loop(C, name, 0, << part_dict, <<>> >>)
     ELSE traverse_name_parts(C, name, len_name_parts, 0, 0, optional_parts,
                              mandatory_parts, part_dict)

\* ------------------------------------------------------------ rebuilt_name

RECURSIVE PartValues(_)
PartValues(part) ==
  IF part = <<>> THEN <<>> ELSE Head(part).v \o PartValues(Tail(part))

\* the loop of rebuilt_name without the skip of the parts whose values are all
\* empty
RECURSIVE rebuilt_loop_keeps_empty_parts(_)
rebuilt_loop_keeps_empty_parts(parts) ==
  IF parts = <<>> THEN <<>>
  ELSE PartValues(Head(parts)) \o <<"_">> \o rebuilt_loop_keeps_empty_parts(Tail(parts))

RECURSIVE rebuilt_loop(_)
rebuilt_loop(parts) ==
  IF parts = <<>> THEN <<>>
  ELSE IF \A i \in 1..Len(Head(parts)) : Head(parts)[i].v = <<>>
  THEN rebuilt_loop(Tail(parts))
  ELSE PartValues(Head(parts)) \o <<"_">> \o rebuilt_loop(Tail(parts))

\* rebuilt_name without the test of the top-level 'bad_naming' key
rebuilt_name_ignores_sentinel(part_dict) ==
  Strip(rebuilt_loop(part_dict.parts))

rebuilt_name(part_dict) ==
  IF part_dict.bad_naming # <<>> THEN part_dict.bad_naming[1]
  ELSE Strip(rebuilt_loop(part_dict.parts))

\* ------------------------------------------------- paths, numbers, letters

\* s.rpartition("|"): <<before, sep, after>>
RPartition(s) ==
  LET bars == {i \in 1..Len(s) : s[i] = "|"} IN
  IF bars = {} THEN << <<>>, <<>>, s >>
  ELSE LET i == CHOOSE b \in bars : \A c \in bars : c <= b IN
       << SubSeq(s, 1, i - 1), <<"|">>, SubSeq(s, i + 1, Len(s)) >>

\* the long name made without the path of the parent
Sibling_top_level(long_name, short_name) == short_name

\* f"{before}{sep}{short_name}" with before, sep taken from long_name
Sibling(long_name, short_name) ==
  RPartition(long_name)[1] \o RPartition(long_name)[2] \o short_name

DigitChars == <<"0", "1", "2", "3", "4", "5", "6", "7", "8", "9">>

\* str(n) for n >= 0
RECURSIVE Str(_)
Str(n) == IF n < 10 THEN << DigitChars[n + 1] >>
          ELSE Str(n \div 10) \o << DigitChars[(n % 10) + 1] >>

\* int(c) for a digit c
IntOfDigit(c) == (CHOOSE i \in 1..10 : DigitChars[i] = c) - 1

\* f"{n:0{width}d}"
RECURSIVE ZeroPadTo(_, _)
ZeroPadTo(s, width) == IF Len(s) >= width THEN s ELSE ZeroPadTo(<<"0">> \o s, width)
ZeroPad(n, width) == ZeroPadTo(Str(n), width)

\* chr(code) for the code points ord("A") = 65 .. ord("_") = 95
CharsFromA ==
  << "A","B","C","D","E","F","G","H","I","J","K","L","M",
     "N","O","P","Q","R","S","T","U","V","W","X","Y","Z",
     "[","\\","]","^","_" >>
OrdA == 65
Chr(code) == << CharsFromA[code - OrdA + 1] >>

\* mc.objExists(long_name)
objExists(existing, long_name) == long_name \in existing

\* the long name the scene gives the object old_long_name when it is renamed
\* to short_name: the object stays under its parent
RenameTarget(old_long_name, short_name) ==
  SubSeq(old_long_name, 1, Len(old_long_name) - Len(RPartition(old_long_name)[3]))
    \o short_name

\* s.replace(old, new), old not empty
RECURSIVE Replace(_, _, _)
Replace(s, old, new) ==
  IF Len(s) < Len(old) THEN s
  ELSE IF StartsWith(s, old) THEN new \o Replace(DropFirst(s, Len(old)), old, new)
  ELSE << Head(s) >> \o Replace(Tail(s), old, new)

\* the path stored for the child "c" of the item
ChildOf(long_name) == long_name \o <<"|","c">>

\* the path stored for an item further down, whose path under the item
\* repeats the long name of the item: |g|a|g|a under |g|a, a|a under a
DescendantOf(long_name) ==
  long_name \o (IF Head(long_name) = "|" THEN <<>> ELSE <<"|">>) \o long_name

\* update_child_data: new_child_data
update_child_data(old_child_data, old_long_name, new_long_name) ==
  Replace(old_child_data, old_long_name, new_long_name)

\* an increment that skips a value
NextInc_skips(inc) == inc + 2

\* a_inc = chr(ord(a_inc) + 1) / n_inc += 1 / suffix += 1
NextInc(inc) == inc + 1

\* ------------------------------------------------- the structure of a preset

LowerLetters ==
  { "a","b","c","d","e","f","g","h","i","j","k","l","m",
    "n","o","p","q","r","s","t","u","v","w","x","y","z" }
\* str.isalpha() of one character
IsAlpha(c) == c \in LowerLetters \/ \E i \in 1..Len(Letters) : Letters[i] = c

\* sub in s, for two Python strings
Contains(s, sub) ==
  \E i \in 0..(Len(s) - Len(sub)) : SubSeq(s, i + 1, i + Len(sub)) = sub

\* s.find(c): the 0-based index of the first c, -1 when there is none
Find(s, c) ==
  IF \E i \in 1..Len(s) : s[i] = c
  THEN (CHOOSE i \in 1..Len(s) : s[i] = c /\ \A j \in 1..(i - 1) : s[j] # c) - 1
  ELSE -1

\* s[a:b] with 0 <= a and b possibly negative
Slice(s, a, b) ==
  LET stop == IF b < 0 THEN Len(s) + b ELSE IF b > Len(s) THEN Len(s) ELSE b
  IN IF stop <= a THEN <<>> ELSE SubSeq(s, a + 1, stop)

AlphabeticalIncKey == <<"a","l","p","h","a","b","e","t","i","c","a","l","_","i","n","c">>
NumericalIncKey == <<"n","u","m","e","r","i","c","a","l","_","i","n","c">>
NameToken == <<"[","n","a","m","e","]">>
TypeToken == <<"[","t","y","p","e","]">>
ZoningToken == <<"[","z","o","n","i","n","g","]">>
\* valid_categories of set_structure, in its order
valid_categories ==
  << <<"[","s","y","m","m","e","t","r","y","]">>, TypeToken, NameToken, ZoningToken,
     <<"[","o","r","i","e","n","t","a","t","i","o","n","]">>,
     <<"[">> \o AlphabeticalIncKey \o <<"]">>,
     <<"[">> \o NumericalIncKey \o <<"]">> >>

\* what set_structure returns when it refuses the structure
BadCharacters == <<"B","a","d"," ","c","h","a","r","a","c","t","e","r","s">>

\* the index in valid of the first category structure starts with, 0 if none
FirstCategory(structure, valid) ==
  LET hits == { i \in 1..Len(valid) : StartsWith(structure, valid[i]) }
  IN IF hits = {} THEN 0 ELSE CHOOSE i \in hits : \A j \in hits : i <= j

RemoveAt(s, i) == SubSeq(s, 1, i - 1) \o SubSeq(s, i + 1, Len(s))

\* the while loop of set_structure; TRUE when it ends without a refusal
RECURSIVE set_structure_loop(_, _, _)
set_structure_loop(structure, valid, used_categories) ==
  IF structure = <<>> THEN TRUE
  ELSE IF \E i \in 1..Len(used_categories) : StartsWith(structure, used_categories[i])
  THEN FALSE
  ELSE IF /\ Head(structure) = "["
          /\ LET bracket_content == Slice(structure, 1, Find(structure, "]"))
             IN /\ \E i \in 1..Len(bracket_content) : bracket_content[i] = "_"
                /\ bracket_content # AlphabeticalIncKey
                /\ bracket_content # NumericalIncKey
  THEN FALSE
  ELSE IF Head(structure) = "_"
  THEN \* structure[1] exists: the structure was stripped of its underscores
       IF Len(structure) > 1 /\ structure[2] = "_" THEN FALSE
       ELSE set_structure_loop(Tail(structure), valid, used_categories)
  ELSE IF FirstCategory(structure, valid) = 0 THEN FALSE
  ELSE set_structure_loop(
         DropFirst(structure, Len(valid[FirstCategory(structure, valid)])),
         RemoveAt(valid, FirstCategory(structure, valid)),
         Append(used_categories, valid[FirstCategory(structure, valid)]))

\* set_structure without the test of lines 800-802: a text with no [name]
\* goes on to the loop over its categories
set_structure_without_name_check(text) ==
  IF Strip(text) = <<>> THEN <<>>
  ELSE IF \E i \in 1..Len(Strip(text)) :
            ~(IsAlpha(Strip(text)[i]) \/ Strip(text)[i] \in {"[", "]", "_"})
  THEN BadCharacters
  ELSE IF set_structure_loop(Strip(text), valid_categories, <<>>) THEN Strip(text)
  ELSE BadCharacters

\* UserSettingsUI.set_structure, of the text of the entry
set_structure(text) ==
  IF Strip(text) = <<>> THEN <<>>
  ELSE IF \E i \in 1..Len(Strip(text)) :
            ~(IsAlpha(Strip(text)[i]) \/ Strip(text)[i] \in {"[", "]", "_"})
  THEN BadCharacters
  ELSE IF ~Contains(Strip(text), NameToken) THEN BadCharacters
  ELSE IF set_structure_loop(Strip(text), valid_categories, <<>>) THEN Strip(text)
  ELSE BadCharacters

\* name_structure.split("_"): every underscore splits
SplitPoint_every_underscore(s, i) == s[i] = "_"

\* re.split(r'_(?![^\[]*\])', name_structure): an underscore splits unless a
\* "]" follows it with no "[" in between
SplitPoint(s, i) ==
  /\ s[i] = "_"
  /\ ~\E j \in (i + 1)..Len(s) :
        s[j] = "]" /\ \A k \in (i + 1)..(j - 1) : s[k] # "["
RECURSIVE SplitStructureFrom(_, _)
SplitStructureFrom(s, start) ==
  LET points == { i \in start..Len(s) : SplitPoint(s, i) }
  IN IF points = {} THEN << SubSeq(s, start, Len(s)) >>
     ELSE LET i == CHOOSE p \in points : \A q \in points : p <= q
          IN << SubSeq(s, start, i - 1) >> \o SplitStructureFrom(s, i + 1)
SplitStructure(s) == SplitStructureFrom(s, 1)

\* word.strip('[]')
RECURSIVE StripBrackets(_)
StripBrackets(s) ==
  IF s # <<>> /\ Head(s) \in {"[", "]"} THEN StripBrackets(Tail(s))
  ELSE IF s # <<>> /\ s[Len(s)] \in {"[", "]"} THEN StripBrackets(SubSeq(s, 1, Len(s) - 1))
  ELSE s

\* [word.strip('[]') for word in re.findall(r'\[([^\]]+)\]', part)]
RECURSIVE FindCategories(_, _)
FindCategories(part, start) ==
  LET opens == { i \in start..Len(part) :
                   /\ part[i] = "["
                   /\ i + 1 <= Len(part) /\ part[i + 1] # "]"
                   /\ \E j \in (i + 2)..Len(part) : part[j] = "]" }
  IN IF opens = {} THEN <<>>
     ELSE LET i == CHOOSE p \in opens : \A q \in opens : p <= q
              j == CHOOSE c \in (i + 2)..Len(part) :
                     part[c] = "]" /\ \A k \in (i + 2)..(c - 1) : part[k] # "]"
          IN << StripBrackets(SubSeq(part, i + 1, j - 1)) >>
             \o FindCategories(part, j + 1)

\* the keys of part_dict as inspect_name_structure builds them from the
\* structure: one list of categories for each part
RECURSIVE CategoriesOfParts(_)
CategoriesOfParts(name_parts) ==
  IF name_parts = <<>> THEN <<>>
  ELSE << FindCategories(Head(name_parts), 1) >> \o CategoriesOfParts(Tail(name_parts))
structure_parts(name_structure) == CategoriesOfParts(SplitStructure(name_structure))

\* DefaultNameStructure.NAME_STRUCTURE, as text
DefaultNameStructureText ==
  valid_categories[1] \o <<"_">> \o valid_categories[2] \o <<"_">>
    \o valid_categories[3] \o valid_categories[4] \o valid_categories[5]
    \o valid_categories[6] \o <<"_">> \o valid_categories[7]

\* constants.get_user_name_structure: a saved "" is the default structure
get_user_name_structure(saved) ==
  IF saved = <<>> THEN DefaultNameStructureText ELSE saved

\* ------------------------------------------- the letter given to a selection

\* the selected item of place k followed by what get_items_recursive appends
\* for its children: its descendants, depth first
RECURSIVE Descendants(_, _, _)
Descendants(k, children, j) ==
  IF j > Len(children) THEN <<>>
  ELSE << [item |-> <<k, j>>, type |-> children[j]] >> \o Descendants(k, children, j + 1)

items_to_rename(k, selected_item) ==
  << [item |-> <<k>>, type |-> selected_item.type] >>
    \o Descendants(k, selected_item.children, 1)

\* for item in items: rename_with_a_inc(tree_widget, item, letter) unless the
\* item is a mesh
RECURSIVE rename_each(_, _)
rename_each(items, letter) ==
  IF items = <<>> THEN <<>>
  ELSE (IF Head(items).type # "mesh"
        THEN << [item |-> Head(items).item, letter |-> letter] >> ELSE <<>>)
       \o rename_each(Tail(items), letter)

\* "selections", "A to Z": the letter advances after each item renamed
RECURSIVE a_to_z_selection(_, _, _)
a_to_z_selection(items, k, code) ==
  IF k > Len(items) THEN <<>>
  ELSE IF items[k].type # "mesh"
  THEN << [item |-> <<k>>, letter |-> Chr(code)] >> \o a_to_z_selection(items, k + 1, code + 1)
  ELSE a_to_z_selection(items, k + 1, code)

\* "selects and childs", "A to Z": the letter advances after each selected item
RECURSIVE a_to_z_select_and_child(_, _, _)
a_to_z_select_and_child(items, k, code) ==
  IF k > Len(items) THEN <<>>
  ELSE rename_each(items_to_rename(k, items[k]), Chr(code))
       \o a_to_z_select_and_child(items, k + 1, code + 1)

RECURSIVE SelectedOnly(_, _)
SelectedOnly(items, k) ==
  IF k > Len(items) THEN <<>>
  ELSE << [item |-> <<k>>, type |-> items[k].type] >> \o SelectedOnly(items, k + 1)

\* items = the selected items, then the descendants of each
RECURSIVE SelectedThenChildren(_, _, _)
SelectedThenChildren(items, k, children_now) ==
  IF k > Len(items) THEN (IF children_now THEN <<>> ELSE SelectedThenChildren(items, 1, TRUE))
  ELSE (IF children_now THEN Descendants(k, items[k].children, 1)
        ELSE << [item |-> <<k>>, type |-> items[k].type] >>)
       \o SelectedThenChildren(items, k + 1, children_now)

\* set_name_with_a_inc: the calls of rename_with_a_inc it makes, in order
set_name_with_a_inc(items, letter, mode, option) ==
  LET letters == option = "letters" \/ (letter = <<>> /\ option = "A to Z")
  IN IF mode = "selections"
     THEN IF letters THEN rename_each(SelectedOnly(items, 1), letter)
          ELSE a_to_z_selection(items, 1, OrdA)
     ELSE IF letters THEN rename_each(SelectedThenChildren(items, 1, FALSE), letter)
          ELSE a_to_z_select_and_child(items, 1, OrdA)

\* --------------------------------------------------- editing one category

\* the characters of a category identifier
CategoryWord(category) ==
  CASE category = "symmetry" -> <<"s","y","m","m","e","t","r","y">>
    [] category = "type" -> <<"t","y","p","e">>
    [] category = "name" -> <<"n","a","m","e">>
    [] category = "zoning" -> <<"z","o","n","i","n","g">>
    [] category = "orientation" -> <<"o","r","i","e","n","t","a","t","i","o","n">>
    [] category = "alphabetical_inc" -> AlphabeticalIncKey
    [] category = "numerical_inc" -> NumericalIncKey

\* the same loop giving the category to every part
RECURSIVE set_category_every_part(_, _, _)
set_category_every_part(parts, category, value) ==
  IF parts = <<>> THEN <<>>
  ELSE << Put(Head(parts), category, value) >>
       \o set_category_every_part(Tail(parts), category, value)

\* for index in name_part_dict: if category in name_part_dict[index]: ... = value,
\* over the parts of the dict
RECURSIVE set_category_parts(_, _, _)
set_category_parts(parts, category, value) ==
  IF parts = <<>> THEN <<>>
  ELSE << IF category \in Keys(Head(parts)) THEN Put(Head(parts), category, value)
          ELSE Head(parts) >>
       \o set_category_parts(Tail(parts), category, value)

\* the loop of rename_with_type, _zoning, _orient, _a_inc, _n_inc, _symmetry
\* and _short_name.  It also reaches the top-level 'bad_naming' key, whose
\* value is a string: the test is then a substring test, and the assignment
\* into the string raises TypeError
set_category(part_dict, category, value) ==
  IF part_dict.bad_naming # <<>> /\ Contains(part_dict.bad_naming[1], CategoryWord(category))
  THEN Raised(part_dict)
  ELSE [ parts |-> set_category_parts(part_dict.parts, category, value),
         bad_naming |-> part_dict.bad_naming, err |-> part_dict.err ]

\* ------------------------------------------------------------------ bounds

\* a name has at most (number of parts) + MaxExtraSegments segments
MaxExtraSegments == 1
\* a name is inspected and rebuilt, and the result edited again, MaxRounds times
MaxRounds == 2
\* the scene holds, per kind of increment, the first MaxTaken candidates
MaxTaken == 2
\* the scene holds at most MaxScene objects (the dense scene apart)
MaxScene == 3
\* the dense scene holds the numbered objects 1..DenseTaken
DenseTaken == 10
\* increments are followed up to MaxInc steps: past the 26 letters
MaxInc == 28

\* the segments names are made of: empty, a symmetry / a letter, a type,
\* a name with a zoning, 3 digits, 4 digits
Fragments ==
  { <<>>, <<"L">>, <<"h","i">>, <<"a","L","t">>, <<"0","0","1">>, <<"0","0","0","1">> }

RECURSIVE SegmentLists(_)
SegmentLists(n) ==
  IF n = 0 THEN { <<>> }
  ELSE { <<f>> \o segs : f \in Fragments, segs \in SegmentLists(n - 1) }

NamesOf(C) ==
  UNION { {Join(segs) : segs \in SegmentLists(n)} :
          n \in 1..(Len(C.parts) + MaxExtraSegments) }

\* the short names of the objects of a scene around the name "a": the name,
\* its first lettered, numbered and digit-suffixed variants, and a name of
\* five segments
OverfilledName == <<"a","_","a","_","a","_","a","_","a">>
ShortNames ==
  { <<"a">>, OverfilledName }
  \cup { <<"a">> \o Chr(OrdA + i - 1) : i \in 1..MaxTaken }
  \cup { <<"a","_">> \o ZeroPad(i, DefaultNumIncLenght) : i \in 1..MaxTaken }
  \cup { <<"a">> \o Str(i) : i \in 1..MaxTaken }
DenseNames == { <<"a","_">> \o ZeroPad(i, DefaultNumIncLenght) : i \in 1..DenseTaken }
\* the scenes where every candidate is taken: the 26 letters, and the numbers
\* of one digit from 1 on
AllLetterNames == { <<"a">> } \cup { <<"a", Letters[i]>> : i \in 1..Len(Letters) }
AllDigitNames == { <<"a">> } \cup { <<"a","_">> \o Str(i) : i \in 1..9 }
\* the scene where a, a1, a2, ... are taken up to a number of two digits
AppendedDigitNames == { <<"a">> } \cup { <<"a">> \o Str(i) : i \in 1..DenseTaken }
SceneNames ==
  { T \in SUBSET ShortNames : T # {} /\ Cardinality(T) <= MaxScene }
  \cup { DenseNames, AllLetterNames, AllDigitNames, AppendedDigitNames }
\* what stands before the short name in a long name: nothing, or the path of
\* a group and the separator
Parents == { <<>>, <<"|","g","|">> }
\* the presets the uniqueness resolution runs under: the default structure
\* (alphabetical increment), [name]_[numerical_inc] with 3 digits and with 1,
\* [type]_[name]
UniquePresets == {1, 6, 2, 11, 12}

\* the texts of the structure entry: up to MaxPieces pieces, each a category
\* token, a token that is no category, an underscore, a bracket or a letter
MaxPieces == 3
StructurePieces ==
  { NameToken, TypeToken, ZoningToken, <<"[">> \o NumericalIncKey \o <<"]">>,
    <<"[","f","o","o","]">>, <<"[","n","a","_","m","e","]">>,
    <<"_">>, <<"[">>, <<"x">>, <<"1">> }
RECURSIVE StructureTexts(_)
StructureTexts(n) ==
  IF n = 0 THEN { <<>> }
  ELSE StructureTexts(n - 1)
       \cup { t \o piece : t \in StructureTexts(n - 1), piece \in StructurePieces }

\* the names a category is edited in: segments that hold a category
\* identifier among them
EditFragments ==
  { <<>>, <<"L">>, <<"h","i">>, <<"a","L","t">>, <<"0","0","1">>,
    <<"r","e","t","y","p","e">>, <<"n","a","m","e">> }
RECURSIVE EditSegmentLists(_)
EditSegmentLists(n) ==
  IF n = 0 THEN { <<>> }
  ELSE { <<f>> \o segs : f \in EditFragments, segs \in EditSegmentLists(n - 1) }
\* the name of an object of the scene is not empty
EditNamesOf(C) ==
  UNION { {Join(segs) : segs \in EditSegmentLists(n)} :
          n \in 1..(Len(C.parts) + MaxExtraSegments) } \ { <<>> }
\* [type]_[symmetry][name][alphabetical_inc] and
\* [symmetry][type][zoning]_[name]_[orientation][numerical_inc]
EditPresets == {4, 10}
Categories ==
  {"symmetry", "type", "name", "zoning", "orientation", "alphabetical_inc",
   "numerical_inc"}
EditValues == { <<>>, <<"R">>, <<"l","o">>, <<"L","t">>, <<"0","0","1">> }

\* the PartDicts handed to rebuilt_name: every category of every part holds
\* one of a few values, and a part may hold a 'bad_naming' entry after its
\* categories
RebuildValues == { <<>>, <<"a">>, <<"_","b">> }
RECURSIVE PartAssignments(_)
PartAssignments(keys) ==
  IF keys = <<>> THEN { <<>> }
  ELSE { << [k |-> Head(keys), v |-> value] >> \o rest :
           value \in RebuildValues, rest \in PartAssignments(Tail(keys)) }
RECURSIVE DictAssignments(_, _)
DictAssignments(parts, with_bad_naming) ==
  IF parts = <<>> THEN { <<>> }
  ELSE { << part >> \o rest :
           part \in PartAssignments(IF with_bad_naming
                                    THEN Append(Head(parts), "bad_naming")
                                    ELSE Head(parts)),
           rest \in DictAssignments(Tail(parts), with_bad_naming) }
RebuildPresets == {4, 10}

\* ------------------------------------------------------------------- state

\* the fragments and the value lists given to separate_value and
\* separate_value_recursive: fragments of at most MaxFragment characters over
\* two letters, lists of at most MaxCandidates distinct values that overlap
\* one another, and fragments made of the default zoning values
MaxFragment == 4
MaxCandidates == 2
RECURSIVE PeelFragments(_)
PeelFragments(n) ==
  IF n = 0 THEN { <<>> }
  ELSE PeelFragments(n - 1)
       \cup { f \o << c >> : f \in PeelFragments(n - 1), c \in {"a", "b"} }
CandidatePool == { <<"a">>, <<"a","b">>, <<"b","a">>, <<"b">> }
RECURSIVE CandidateLists(_)
CandidateLists(n) ==
  IF n = 0 THEN { <<>> }
  ELSE CandidateLists(n - 1)
       \cup { l \o << c >> : l \in { k \in CandidateLists(n - 1) : Len(k) = n - 1 },
                              c \in CandidatePool }
DistinctLists(n) ==
  { l \in CandidateLists(n) : \A i \in 1..Len(l) : \A j \in 1..Len(l) : i # j => l[i] # l[j] }
ZoningFragments ==
  { <<"T","p","L","t">>, <<"T","p","L","t","x">>, <<"x","T","p","L","t">>,
    <<"L","t">>, <<"T","p","x","L","t">> }

\* the selections of the tree: at most MaxSelected items, each with at most
\* MaxChildren descendants, transforms or meshes
MaxSelected == 2
MaxChildren == 2
ObjTypes == {"transform", "mesh"}
RECURSIVE TypeLists(_)
TypeLists(n) ==
  IF n = 0 THEN { <<>> }
  ELSE TypeLists(n - 1)
       \cup { l \o << t >> : l \in { k \in TypeLists(n - 1) : Len(k) = n - 1 }, t \in ObjTypes }
TreeItems == { [type |-> t, children |-> c] : t \in ObjTypes, c \in TypeLists(MaxChildren) }
RECURSIVE Selections(_)
Selections(n) ==
  IF n = 0 THEN { <<>> }
  ELSE Selections(n - 1)
       \cup { l \o << i >> : l \in { k \in Selections(n - 1) : Len(k) = n - 1 }, i \in TreeItems }

VARIABLES
  preset,        \* index in Presets of the preset in force
  orig,          \* the name first given
  name,          \* the name being inspected; new_name in finish_editing
  part_dict,     \* the result of inspect_name_structure; name_part_dict
  rebuilt,       \* the result of rebuilt_name; new_short_name
  pc,            \* where the edit is
  round,         \* how many times the name went through inspect
  existing,      \* the long names of the objects of the scene
  old_long_name, \* item.data(0, Qt.UserRole)[0] when finish_editing starts
  item_data,     \* item.data(0, Qt.UserRole)[0]
  check_unique,  \* the argument of finish_editing
  long_name,     \* long_name in rename_non_unique_name
  a_inc,         \* ord(a_inc)
  n_inc,
  suffix,
  found_index,
  branch,        \* the branch rename_non_unique_name returned from
  observed,      \* the long names mc.objExists answered True for
  requested,     \* the long name mc.rename was asked to create
  entry_structure, \* the text of the structure entry of the settings window
  structure,     \* what set_structure returned
  name_parts,    \* the categories of the parts of the structure
  category,      \* the category rename_with_... writes
  new_value,     \* the value it writes
  item_text,     \* item.text(0): the PartDict the displayed text is coloured from
  child_data,    \* child.data(0, Qt.UserRole)[0] of the child of the item
  descendant_data, \* the same of an item further down, update_children_data recursing
  fragment,      \* part_to_separate given to separate_value(_recursive)
  candidates,    \* value_list given to it
  from_start,    \* start given to it
  separated,     \* the pair it returned
  selected_items, \* tree_widget.selectedItems(), each with its descendants
  rename_mode,   \* rename_mode of set_name_with_a_inc
  inc_option,    \* inc_option of set_name_with_a_inc
  letter_entry,  \* a_inc of set_name_with_a_inc: the text of the letter entry
  renamed        \* the calls of rename_with_a_inc, in order: << item, letter >>

inspect_vars == << preset, orig, name, part_dict, rebuilt, pc, round >>
inspect_but_pc == << preset, orig, name, part_dict, rebuilt, round >>
scene_vars == << existing, old_long_name, item_data, check_unique, long_name,
                 a_inc, n_inc, suffix, found_index, branch, observed, requested >>
vars == << preset, orig, name, part_dict, rebuilt, pc, round,
           existing, old_long_name, item_data, check_unique, long_name,
           a_inc, n_inc, suffix, found_index, branch, observed, requested,
           entry_structure, structure, name_parts, category, new_value,
           item_text, child_data, descendant_data,
           fragment, candidates, from_start, separated,
           selected_items, rename_mode, inc_option, letter_entry, renamed >>
tree_vars == << item_text, child_data, descendant_data >>
\* no item of the outliner is involved
NoTree == item_text = <<>> /\ child_data = <<>> /\ descendant_data = <<>>
renamer_vars == << category, new_value >>
peel_vars == << fragment, candidates, from_start, separated >>
\* no value is being separated
NoPeel == fragment = <<>> /\ candidates = <<>> /\ from_start = FALSE /\ separated = <<>>
batch_vars == << selected_items, rename_mode, inc_option, letter_entry, renamed >>
\* no batch rename is under way
NoBatch == selected_items = <<>> /\ rename_mode = "none" /\ inc_option = "none" /\ letter_entry = <<>> /\ renamed = <<>>
\* no category is being edited
NoRenamer == category = "none" /\ new_value = <<>>
settings_vars == << entry_structure, structure, name_parts >>
\* the settings window is closed
NoSettings == entry_structure = <<>> /\ structure = <<>> /\ name_parts = <<>>

Conf == Presets[preset]

\* ------------------------------------------ inspecting and rebuilding names

InspectInit(presets) ==
  /\ preset \in presets
  /\ orig \in NamesOf(Presets[preset])
  /\ name = orig
  /\ part_dict = EmptyPartDict(Presets[preset])
  /\ rebuilt = <<>>
  /\ pc = "edit"
  /\ round = 1
  /\ existing = {}
  /\ old_long_name = <<>>
  /\ item_data = <<>>
  /\ check_unique = FALSE
  /\ long_name = <<>>
  /\ a_inc = OrdA
  /\ n_inc = 1
  /\ suffix = 1
  /\ found_index = 0
  /\ branch = "none"
  /\ observed = {}
  /\ requested = <<>>
  /\ NoSettings
  /\ NoRenamer
  /\ NoPeel
  /\ NoBatch
  /\ NoTree

Init == InspectInit(WellFormedPresets)

\* inspect_name_structure(name)
Inspect ==
  /\ pc = "edit"
  /\ part_dict' = inspect_name_structure(Conf, name)
  /\ pc' = IF part_dict'.err THEN "raised" ELSE "inspected"
  /\ UNCHANGED settings_vars
  /\ UNCHANGED renamer_vars
  /\ UNCHANGED peel_vars
  /\ UNCHANGED batch_vars
  /\ UNCHANGED tree_vars
  /\ UNCHANGED << preset, orig, name, rebuilt, round >>
  /\ UNCHANGED scene_vars

\* rebuilt_name(part_dict)
Rebuild ==
  /\ pc = "inspected"
  /\ rebuilt' = rebuilt_name(part_dict)
  /\ pc' = "rebuilt"
  /\ UNCHANGED settings_vars
  /\ UNCHANGED renamer_vars
  /\ UNCHANGED peel_vars
  /\ UNCHANGED batch_vars
  /\ UNCHANGED tree_vars
  /\ UNCHANGED << preset, orig, name, part_dict, round >>
  /\ UNCHANGED scene_vars

\* the rebuilt name is what the next edit starts from
EditAgain ==
  /\ pc = "rebuilt"
  /\ round < MaxRounds
  /\ name' = rebuilt
  /\ round' = round + 1
  /\ pc' = "edit"
  /\ UNCHANGED settings_vars
  /\ UNCHANGED renamer_vars
  /\ UNCHANGED peel_vars
  /\ UNCHANGED batch_vars
  /\ UNCHANGED tree_vars
  /\ UNCHANGED << preset, orig, part_dict, rebuilt >>
  /\ UNCHANGED scene_vars

Next == Inspect \/ Rebuild \/ EditAgain

Spec == Init /\ [][Next]_vars

\* the same edits under a structure no part of which declares 'name'
InitM == InspectInit(MalformedPresets)
SpecM == InitM /\ [][Next]_vars

\* --------------------------------------- renaming onto a name that exists

\* the loop over the keys of name_part_dict: the index of the first part that
\* declares an increment, -1 when no part does
FoundPart(pd) ==
  LET with_inc == { i \in 0..(Len(pd.parts) - 1) :
                      \/ "alphabetical_inc" \in Keys(Part(pd, i))
                      \/ "numerical_inc" \in Keys(Part(pd, i)) }
  IN IF with_inc = {} THEN -1
     ELSE CHOOSE i \in with_inc : \A j \in with_inc : i <= j

\* a_inc_in_dict / n_inc_in_dict after the loop; when no part declares an
\* increment the loop reaches the top-level 'bad_naming' key, whose value is
\* a string, and looks for the word in it
a_inc_in_dict(pd) ==
  IF FoundPart(pd) >= 0 THEN "alphabetical_inc" \in Keys(Part(pd, FoundPart(pd)))
  ELSE pd.bad_naming # <<>> /\ Contains(pd.bad_naming[1], AlphabeticalIncKey)

n_inc_in_dict(pd) ==
  /\ ~a_inc_in_dict(pd)
  /\ IF FoundPart(pd) >= 0 THEN TRUE
     ELSE pd.bad_naming # <<>> /\ Contains(pd.bad_naming[1], NumericalIncKey)

InitU ==
  /\ preset \in UniquePresets
  /\ \E parent \in Parents, T \in SceneNames :
       /\ existing = { parent \o short : short \in T }
       /\ old_long_name \in existing
  /\ item_text = inspect_name_structure(Presets[preset], RPartition(old_long_name)[3])
  /\ child_data = ChildOf(old_long_name)
  /\ descendant_data = DescendantOf(old_long_name)
  /\ orig \in ShortNames
  /\ name = orig
  /\ part_dict = EmptyPartDict(Presets[preset])
  /\ rebuilt = <<>>
  /\ pc = "finish_editing"
  /\ round = 1
  /\ item_data = old_long_name
  /\ check_unique \in BOOLEAN
  /\ long_name = <<>>
  /\ a_inc = OrdA
  /\ n_inc = 1
  /\ suffix = 1
  /\ found_index = -1
  /\ branch = "none"
  /\ observed = {}
  /\ requested = <<>>
  /\ NoSettings
  /\ NoRenamer
  /\ NoPeel
  /\ NoBatch

\* finish_editing up to the call of set_new_long_name
FinishEditing ==
  /\ pc = "finish_editing"
  /\ LET new_long_name == Sibling(old_long_name, name)
         exists == check_unique /\ objExists(existing, new_long_name)
         resolve == exists /\ old_long_name # new_long_name
     IN /\ part_dict' = inspect_name_structure(Conf, name)
        /\ observed' = IF exists THEN {new_long_name} ELSE {}
        /\ long_name' = IF resolve THEN new_long_name ELSE long_name
        /\ pc' = IF part_dict'.err THEN "raised"
                 ELSE IF resolve THEN "rename_non_unique_name"
                 ELSE "set_new_long_name"
  /\ UNCHANGED settings_vars
  /\ UNCHANGED renamer_vars
  /\ UNCHANGED peel_vars
  /\ UNCHANGED batch_vars
  /\ UNCHANGED tree_vars
  /\ UNCHANGED << preset, orig, name, rebuilt, round, existing, old_long_name,
                  item_data, check_unique, a_inc, n_inc, suffix, found_index,
                  branch, requested >>

\* rename_non_unique_name down to the first test of the alphabetical loop
EnterAlpha ==
  /\ pc = "rename_non_unique_name"
  /\ a_inc_in_dict(part_dict)
  /\ found_index' = FoundPart(part_dict)
  /\ IF found_index' = -1
     THEN \* name_part_dict["bad_naming"]["alphabetical_inc"] = a_inc
          pc' = "raised" /\ UNCHANGED << part_dict, rebuilt, long_name >>
     ELSE /\ part_dict' = SetCat(part_dict, found_index', "alphabetical_inc",
                                 Chr(a_inc))
          /\ rebuilt' = rebuilt_name(part_dict')
          /\ long_name' = Sibling(long_name, rebuilt')
          /\ pc' = "while_alphabetical"
  /\ UNCHANGED settings_vars
  /\ UNCHANGED renamer_vars
  /\ UNCHANGED peel_vars
  /\ UNCHANGED batch_vars
  /\ UNCHANGED tree_vars
  /\ UNCHANGED << preset, orig, name, round, existing, old_long_name, item_data,
                  check_unique, a_inc, n_inc, suffix, branch, observed, requested >>

\* one turn of the alphabetical loop
LoopAlpha ==
  /\ pc = "while_alphabetical"
  /\ objExists(existing, long_name)
  /\ a_inc - OrdA + 1 < MaxInc
  /\ observed' = observed \cup {long_name}
  /\ a_inc' = NextInc(a_inc)
  /\ part_dict' = SetCat(part_dict, found_index, "alphabetical_inc", Chr(a_inc'))
  /\ rebuilt' = rebuilt_name(part_dict')
  /\ long_name' = Sibling(long_name, rebuilt')
  /\ UNCHANGED settings_vars
  /\ UNCHANGED renamer_vars
  /\ UNCHANGED peel_vars
  /\ UNCHANGED batch_vars
  /\ UNCHANGED tree_vars
  /\ UNCHANGED << preset, orig, name, pc, round, existing, old_long_name, item_data,
                  check_unique, n_inc, suffix, found_index, branch, requested >>

ReturnAlpha ==
  /\ pc = "while_alphabetical"
  /\ ~objExists(existing, long_name)
  /\ name' = rebuilt
  /\ branch' = "alphabetical"
  /\ pc' = "set_new_long_name"
  /\ UNCHANGED settings_vars
  /\ UNCHANGED renamer_vars
  /\ UNCHANGED peel_vars
  /\ UNCHANGED batch_vars
  /\ UNCHANGED tree_vars
  /\ UNCHANGED << preset, orig, part_dict, rebuilt, round, existing, old_long_name,
                  item_data, check_unique, long_name, a_inc, n_inc, suffix,
                  found_index, observed, requested >>

\* rename_non_unique_name down to the first test of the numerical loop
EnterNum ==
  /\ pc = "rename_non_unique_name"
  /\ n_inc_in_dict(part_dict)
  /\ found_index' = FoundPart(part_dict)
  /\ IF found_index' = -1
     THEN \* name_part_dict["bad_naming"]["numerical_inc"] = ...
          pc' = "raised" /\ UNCHANGED << part_dict, rebuilt, long_name >>
     ELSE /\ part_dict' = SetCat(part_dict, found_index', "numerical_inc",
                                 ZeroPad(n_inc, Conf.INC_NUMBER_OF_DIGITS))
          /\ rebuilt' = rebuilt_name(part_dict')
          /\ long_name' = Sibling(long_name, rebuilt')
          /\ pc' = "while_numerical"
  /\ UNCHANGED settings_vars
  /\ UNCHANGED renamer_vars
  /\ UNCHANGED peel_vars
  /\ UNCHANGED batch_vars
  /\ UNCHANGED tree_vars
  /\ UNCHANGED << preset, orig, name, round, existing, old_long_name, item_data,
                  check_unique, a_inc, n_inc, suffix, branch, observed, requested >>

\* one turn of the numerical loop
LoopNum ==
  /\ pc = "while_numerical"
  /\ objExists(existing, long_name)
  /\ n_inc < MaxInc
  /\ observed' = observed \cup {long_name}
  /\ n_inc' = NextInc(n_inc)
  /\ part_dict' = SetCat(part_dict, found_index, "numerical_inc",
                         ZeroPad(n_inc', Conf.INC_NUMBER_OF_DIGITS))
  /\ rebuilt' = rebuilt_name(part_dict')
  /\ long_name' = Sibling(long_name, rebuilt')
  /\ UNCHANGED settings_vars
  /\ UNCHANGED renamer_vars
  /\ UNCHANGED peel_vars
  /\ UNCHANGED batch_vars
  /\ UNCHANGED tree_vars
  /\ UNCHANGED << preset, orig, name, pc, round, existing, old_long_name, item_data,
                  check_unique, a_inc, suffix, found_index, branch, requested >>

ReturnNum ==
  /\ pc = "while_numerical"
  /\ ~objExists(existing, long_name)
  /\ name' = rebuilt
  /\ branch' = "numerical"
  /\ pc' = "set_new_long_name"
  /\ UNCHANGED settings_vars
  /\ UNCHANGED renamer_vars
  /\ UNCHANGED peel_vars
  /\ UNCHANGED batch_vars
  /\ UNCHANGED tree_vars
  /\ UNCHANGED << preset, orig, part_dict, rebuilt, round, existing, old_long_name,
                  item_data, check_unique, long_name, a_inc, n_inc, suffix,
                  found_index, observed, requested >>


\* rename_non_unique_name, no increment declared: down to the first test of
\* the loop on the digit appended to long_name
EnterDigits ==
  /\ pc = "rename_non_unique_name"
  /\ ~a_inc_in_dict(part_dict)
  /\ ~n_inc_in_dict(part_dict)
  /\ IF long_name = <<>>
     THEN \* long_name[-1]
          pc' = "raised" /\ UNCHANGED << suffix, long_name >>
     ELSE /\ suffix' = IF IsDigitStr(<< long_name[Len(long_name)] >>)
                       THEN IntOfDigit(long_name[Len(long_name)]) + 1
                       ELSE 1
          /\ long_name' = IF IsDigitStr(<< long_name[Len(long_name)] >>)
                          THEN DropLast(long_name, 1) \o Str(suffix')
                          ELSE long_name \o Str(suffix')
          /\ pc' = "while_digits"
  /\ UNCHANGED settings_vars
  /\ UNCHANGED renamer_vars
  /\ UNCHANGED peel_vars
  /\ UNCHANGED batch_vars
  /\ UNCHANGED tree_vars
  /\ UNCHANGED << preset, orig, name, part_dict, rebuilt, round, existing,
                  old_long_name, item_data, check_unique, a_inc, n_inc,
                  found_index, branch, observed, requested >>

\* one turn of the loop on the appended digit
LoopDigits ==
  /\ pc = "while_digits"
  /\ objExists(existing, long_name)
  /\ suffix < MaxInc
  /\ observed' = observed \cup {long_name}
  /\ suffix' = NextInc(suffix)
  /\ long_name' = DropLast(long_name, 1) \o Str(suffix')
  /\ UNCHANGED settings_vars
  /\ UNCHANGED renamer_vars
  /\ UNCHANGED peel_vars
  /\ UNCHANGED batch_vars
  /\ UNCHANGED tree_vars
  /\ UNCHANGED << preset, orig, name, part_dict, rebuilt, pc, round, existing,
                  old_long_name, item_data, check_unique, a_inc, n_inc,
                  found_index, branch, requested >>

ReturnDigits ==
  /\ pc = "while_digits"
  /\ ~objExists(existing, long_name)
  /\ rebuilt' = RPartition(long_name)[3]
  /\ name' = rebuilt'
  /\ branch' = "digits"
  /\ pc' = "set_new_long_name"
  /\ UNCHANGED settings_vars
  /\ UNCHANGED renamer_vars
  /\ UNCHANGED peel_vars
  /\ UNCHANGED batch_vars
  /\ UNCHANGED tree_vars
  /\ UNCHANGED << preset, orig, part_dict, round, existing, old_long_name,
                  item_data, check_unique, long_name, a_inc, n_inc, suffix,
                  found_index, observed, requested >>

\* set_new_long_name, item.setData and item.setText writing the item and its
\* child before the scene is asked
SetNewLongName_writes_first ==
  /\ pc = "set_new_long_name"
  /\ requested' = RenameTarget(old_long_name, name)
  /\ item_data' = Sibling(old_long_name, name)
  /\ item_text' = part_dict
  /\ child_data' = update_child_data(child_data, old_long_name, Sibling(old_long_name, name))
  /\ descendant_data' = update_child_data(descendant_data, old_long_name, Sibling(old_long_name, name))
  /\ IF requested' # old_long_name /\ objExists(existing, requested')
     THEN pc' = "raised" /\ UNCHANGED existing
     ELSE /\ existing' = (existing \ {old_long_name}) \cup {requested'}
          /\ pc' = "done"
  /\ UNCHANGED settings_vars
  /\ UNCHANGED renamer_vars
  /\ UNCHANGED peel_vars
  /\ UNCHANGED batch_vars
  /\ UNCHANGED << preset, orig, name, part_dict, rebuilt, round, old_long_name,
                  check_unique, long_name, a_inc, n_inc, suffix, found_index,
                  branch, observed >>

\* set_new_long_name, item.setData and item.setText: the scene renames
\* old_long_name to the short name, and refuses when an object of that path
\* exists; then the paths of the children, the data and the text of the item
\* are written
SetNewLongName ==
  /\ pc = "set_new_long_name"
  /\ requested' = RenameTarget(old_long_name, name)
  /\ IF requested' # old_long_name /\ objExists(existing, requested')
     THEN pc' = "raised" /\ UNCHANGED << existing, item_data, item_text, child_data, descendant_data >>
     ELSE /\ existing' = (existing \ {old_long_name}) \cup {requested'}
          /\ child_data' = update_child_data(child_data, old_long_name, Sibling(old_long_name, name))
          /\ descendant_data' = update_child_data(descendant_data, old_long_name, Sibling(old_long_name, name))
          /\ item_data' = Sibling(old_long_name, name)
          /\ item_text' = part_dict
          /\ pc' = "done"
  /\ UNCHANGED settings_vars
  /\ UNCHANGED renamer_vars
  /\ UNCHANGED peel_vars
  /\ UNCHANGED batch_vars
  /\ UNCHANGED << preset, orig, name, part_dict, rebuilt, round, old_long_name,
                  check_unique, long_name, a_inc, n_inc, suffix, found_index,
                  branch, observed >>

NextU ==
  \/ FinishEditing
  \/ EnterAlpha \/ LoopAlpha \/ ReturnAlpha
  \/ EnterNum \/ LoopNum \/ ReturnNum
  \/ EnterDigits \/ LoopDigits \/ ReturnDigits
  \/ SetNewLongName

SpecU == InitU /\ [][NextU]_vars

\* another process creates the chosen name after the existence queries and
\* before the rename
OtherProcessCreates ==
  /\ pc = "set_new_long_name"
  /\ RenameTarget(old_long_name, name) \notin existing
  /\ existing' = existing \cup { RenameTarget(old_long_name, name) }
  /\ UNCHANGED settings_vars
  /\ UNCHANGED renamer_vars
  /\ UNCHANGED peel_vars
  /\ UNCHANGED batch_vars
  /\ UNCHANGED tree_vars
  /\ UNCHANGED << preset, orig, name, part_dict, rebuilt, pc, round, old_long_name,
                  item_data, check_unique, long_name, a_inc, n_inc, suffix,
                  found_index, branch, observed, requested >>

NextX ==
  \/ FinishEditing
  \/ EnterAlpha \/ LoopAlpha \/ ReturnAlpha
  \/ EnterNum \/ LoopNum \/ ReturnNum
  \/ EnterDigits \/ LoopDigits \/ ReturnDigits
  \/ OtherProcessCreates
  \/ SetNewLongName

\* finish_editing in a scene another process writes too
SpecX == InitU /\ [][NextX]_vars

\* the steps of rename_non_unique_name
Resolve ==
  \/ EnterAlpha \/ LoopAlpha \/ ReturnAlpha
  \/ EnterNum \/ LoopNum \/ ReturnNum
  \/ EnterDigits \/ LoopDigits \/ ReturnDigits

\* rename_non_unique_name runs on once called: none of its steps that can be
\* taken is put off forever
FairSpecU == SpecU /\ WF_vars(Resolve)

\* ------------------------------------------------ saving the settings window

InitS ==
  /\ entry_structure \in StructureTexts(MaxPieces)
  /\ structure = <<>>
  /\ name_parts = <<>>
  /\ pc = "set_structure"
  /\ NoRenamer
  /\ NoPeel
  /\ NoBatch
  /\ NoTree
  /\ preset = 1
  /\ orig = <<>>
  /\ name = <<>>
  /\ part_dict = EmptyPartDict(Presets[preset])
  /\ rebuilt = <<>>
  /\ round = 1
  /\ existing = {}
  /\ old_long_name = <<>>
  /\ item_data = <<>>
  /\ check_unique = FALSE
  /\ long_name = <<>>
  /\ a_inc = OrdA
  /\ n_inc = 1
  /\ suffix = 1
  /\ found_index = 0
  /\ branch = "none"
  /\ observed = {}
  /\ requested = <<>>

\* on_save: structure = self.set_structure(); "Bad characters" ends the save,
\* an empty structure is saved and read back as the default structure
SetStructure ==
  /\ pc = "set_structure"
  /\ structure' = set_structure(entry_structure)
  /\ pc' = IF structure' = BadCharacters THEN "refused"
           ELSE IF structure' = <<>> THEN "default" ELSE "validated"
  /\ UNCHANGED << entry_structure, name_parts >>
  /\ UNCHANGED inspect_but_pc
  /\ UNCHANGED renamer_vars
  /\ UNCHANGED peel_vars
  /\ UNCHANGED batch_vars
  /\ UNCHANGED tree_vars
  /\ UNCHANGED scene_vars

\* the saved structure is NAME_STRUCTURE after the restart;
\* inspect_name_structure splits it into parts and categories
CompileStructure ==
  /\ pc \in {"validated", "default"}
  /\ name_parts' = structure_parts(get_user_name_structure(structure))
  /\ pc' = "compiled"
  /\ UNCHANGED << entry_structure, structure >>
  /\ UNCHANGED inspect_but_pc
  /\ UNCHANGED renamer_vars
  /\ UNCHANGED peel_vars
  /\ UNCHANGED batch_vars
  /\ UNCHANGED tree_vars
  /\ UNCHANGED scene_vars

NextS == SetStructure \/ CompileStructure

SpecS == InitS /\ [][NextS]_vars

\* ------------------------------------------- the renamer edits a category

InitE ==
  /\ preset \in EditPresets
  /\ orig \in EditNamesOf(Presets[preset])
  /\ name = orig
  /\ part_dict = EmptyPartDict(Presets[preset])
  /\ rebuilt = <<>>
  /\ pc = "edit"
  /\ round = 1
  /\ existing = {}
  /\ old_long_name = <<>>
  /\ item_data = <<>>
  /\ check_unique = FALSE
  /\ long_name = <<>>
  /\ a_inc = OrdA
  /\ n_inc = 1
  /\ suffix = 1
  /\ found_index = 0
  /\ branch = "none"
  /\ observed = {}
  /\ requested = <<>>
  /\ NoSettings
  /\ NoRenamer
  /\ NoPeel
  /\ NoBatch
  /\ NoTree

\* rename_with_...: the loop over name_part_dict that writes the category
SetCategory ==
  /\ pc = "inspected"
  /\ \E c \in Categories, value \in EditValues :
       /\ category' = c
       /\ new_value' = value
       /\ part_dict' = set_category(part_dict, c, value)
  /\ pc' = IF part_dict'.err THEN "raised" ELSE "edited"
  /\ UNCHANGED << preset, orig, name, rebuilt, round >>
  /\ UNCHANGED scene_vars
  /\ UNCHANGED settings_vars
  /\ UNCHANGED peel_vars
  /\ UNCHANGED batch_vars
  /\ UNCHANGED tree_vars

\* rename_with_...: rebuilt_name = NameStructureInspector.rebuilt_name(name_part_dict)
RebuildEdited ==
  /\ pc = "edited"
  /\ rebuilt' = rebuilt_name(part_dict)
  /\ pc' = "renamed"
  /\ UNCHANGED << preset, orig, name, part_dict, round >>
  /\ UNCHANGED scene_vars
  /\ UNCHANGED settings_vars
  /\ UNCHANGED renamer_vars
  /\ UNCHANGED peel_vars
  /\ UNCHANGED batch_vars
  /\ UNCHANGED tree_vars

\* tree_widget.start_editing_by_renamer(item, rebuilt_name), then
\* finish_editing: name_part_dict = inspect_name_structure(new_name)
FinishEdited ==
  /\ pc = "renamed"
  /\ name' = rebuilt
  /\ part_dict' = inspect_name_structure(Conf, rebuilt)
  /\ pc' = IF part_dict'.err THEN "raised" ELSE "reinspected"
  /\ UNCHANGED << preset, orig, rebuilt, round >>
  /\ UNCHANGED scene_vars
  /\ UNCHANGED settings_vars
  /\ UNCHANGED renamer_vars
  /\ UNCHANGED peel_vars
  /\ UNCHANGED batch_vars
  /\ UNCHANGED tree_vars

NextE == Inspect \/ SetCategory \/ RebuildEdited \/ FinishEdited

SpecE == InitE /\ [][NextE]_vars

\* --------------------------------------------- rebuilding any PartDict

InitR ==
  /\ preset \in RebuildPresets
  /\ \E with_bad_naming \in BOOLEAN :
       \E parts \in DictAssignments(Presets[preset].parts, with_bad_naming) :
         part_dict = [ parts |-> parts, bad_naming |-> <<>>, err |-> FALSE ]
  /\ orig = <<>>
  /\ name = <<>>
  /\ rebuilt = <<>>
  /\ pc = "inspected"
  /\ round = 1
  /\ existing = {}
  /\ old_long_name = <<>>
  /\ item_data = <<>>
  /\ check_unique = FALSE
  /\ long_name = <<>>
  /\ a_inc = OrdA
  /\ n_inc = 1
  /\ suffix = 1
  /\ found_index = 0
  /\ branch = "none"
  /\ observed = {}
  /\ requested = <<>>
  /\ NoSettings
  /\ NoRenamer
  /\ NoPeel
  /\ NoBatch
  /\ NoTree

\* the PartDict is rebuilt, and the name it gives is inspected and rebuilt again
SpecR == InitR /\ [][Next]_vars

\* ------------------------------------------------- separating one value

InitV ==
  /\ \/ /\ fragment \in PeelFragments(MaxFragment)
        /\ candidates \in DistinctLists(MaxCandidates)
     \/ /\ fragment \in ZoningFragments
        /\ candidates = DefaultZoningSingle
  /\ from_start \in BOOLEAN
  /\ separated = <<>>
  /\ pc = "separate"
  /\ NoSettings
  /\ NoRenamer
  /\ NoBatch
  /\ NoTree
  /\ preset = 1
  /\ orig = <<>>
  /\ name = <<>>
  /\ part_dict = EmptyPartDict(Presets[preset])
  /\ rebuilt = <<>>
  /\ round = 1
  /\ existing = {}
  /\ old_long_name = <<>>
  /\ item_data = <<>>
  /\ check_unique = FALSE
  /\ long_name = <<>>
  /\ a_inc = OrdA
  /\ n_inc = 1
  /\ suffix = 1
  /\ found_index = 0
  /\ branch = "none"
  /\ observed = {}
  /\ requested = <<>>

\* process_category, symmetry and type: separate_value
SeparateValue ==
  /\ pc = "separate"
  /\ separated' = separate_value(fragment, candidates, from_start)
  /\ pc' = "separated"
  /\ UNCHANGED << fragment, candidates, from_start >>
  /\ UNCHANGED inspect_but_pc
  /\ UNCHANGED scene_vars
  /\ UNCHANGED settings_vars
  /\ UNCHANGED renamer_vars
  /\ UNCHANGED batch_vars
  /\ UNCHANGED tree_vars

\* process_category, zoning and orientation: separate_value_recursive
SeparateValueRecursive ==
  /\ pc = "separate"
  /\ separated' = separate_value_recursive(fragment, candidates, from_start)
  /\ pc' = "peeled"
  /\ UNCHANGED << fragment, candidates, from_start >>
  /\ UNCHANGED inspect_but_pc
  /\ UNCHANGED scene_vars
  /\ UNCHANGED settings_vars
  /\ UNCHANGED renamer_vars
  /\ UNCHANGED batch_vars
  /\ UNCHANGED tree_vars

NextV == SeparateValue \/ SeparateValueRecursive

SpecV == InitV /\ [][NextV]_vars

\* ------------------------------------------------ the increment of a batch

InitB ==
  /\ selected_items \in Selections(MaxSelected)
  /\ rename_mode \in {"selections", "selects and childs"}
  /\ inc_option \in {"A to Z", "letters"}
  /\ letter_entry \in { <<>>, <<"C">> }
  /\ renamed = <<>>
  /\ pc = "set_name_with_a_inc"
  /\ NoSettings
  /\ NoRenamer
  /\ NoPeel
  /\ NoTree
  /\ preset = 1
  /\ orig = <<>>
  /\ name = <<>>
  /\ part_dict = EmptyPartDict(Presets[preset])
  /\ rebuilt = <<>>
  /\ round = 1
  /\ existing = {}
  /\ old_long_name = <<>>
  /\ item_data = <<>>
  /\ check_unique = FALSE
  /\ long_name = <<>>
  /\ a_inc = OrdA
  /\ n_inc = 1
  /\ suffix = 1
  /\ found_index = 0
  /\ branch = "none"
  /\ observed = {}
  /\ requested = <<>>

\* set_name_with_a_inc: ValueError when nothing is selected
SetNameWithAInc ==
  /\ pc = "set_name_with_a_inc"
  /\ IF selected_items = <<>>
     THEN pc' = "raised" /\ UNCHANGED renamed
     ELSE /\ renamed' = set_name_with_a_inc(selected_items, letter_entry, rename_mode, inc_option)
          /\ pc' = "batch_done"
  /\ UNCHANGED << selected_items, rename_mode, inc_option, letter_entry >>
  /\ UNCHANGED inspect_but_pc
  /\ UNCHANGED scene_vars
  /\ UNCHANGED settings_vars
  /\ UNCHANGED renamer_vars
  /\ UNCHANGED peel_vars
  /\ UNCHANGED tree_vars

NextB == SetNameWithAInc

SpecB == InitB /\ [][NextB]_vars

\* ------------------------------------------------- the regimes of a name

NameLenght(n) == Len(Split(n))
PartCount == Len(Conf.parts)
MandatoryCount == Cardinality(MandatoryParts(Conf))
Underfilled(n) == NameLenght(n) < MandatoryCount
Overfilled(n) == ~Underfilled(n) /\ NameLenght(n) > PartCount
Exact(n) == ~Underfilled(n) /\ NameLenght(n) = PartCount
Inspected == pc \in {"inspected", "rebuilt"}

NoEmptySegment(n) == \A i \in 1..Len(Split(n)) : Split(n)[i] # <<>>

\* ------------------------------------------------------------------ claims

\* C1: for every template and every name with as many segments as the
\* template has parts, rebuilt_name(inspect_name_structure(n)) = n.  It is
\* stated of the names without an empty segment: rebuilt_name skips the parts
\* whose values are all empty, so it cannot give an empty segment back.
C1_RoundTripExact ==
  (pc = "rebuilt" /\ round = 1 /\ Exact(orig) /\ NoEmptySegment(orig))
    => rebuilt = orig

\* C2: for every name n with as many segments as the template has parts, and
\* r the name rebuilt from its inspection, inspecting and rebuilding r gives
\* r again.
C2_IdempotentReEdit ==
  (pc = "rebuilt" /\ round = 2 /\ Exact(orig)) => rebuilt = name

\* C3: a name with more segments than the template has parts is stored whole
\* under the top-level 'bad_naming' key, and rebuilt_name returns it unchanged,
\* whatever value a category of a part is then given.
C3_BadNamingPassthrough ==
  Overfilled(name) =>
    /\ Inspected =>
         /\ part_dict.bad_naming = <<name>>
         /\ \A i \in 0..(PartCount - 1) :
              \A j \in 1..Len(Part(part_dict, i)) :
                \A value \in Fragments :
                  rebuilt_name(SetCat(part_dict, i, Part(part_dict, i)[j].k, value))
                    = name
    /\ pc = "rebuilt" => rebuilt = name

C3_Witness ==
  /\ pc = "rebuilt" /\ Overfilled(name)
  /\ name = <<"L","_","_","a","L","t">> /\ preset = 2
  /\ part_dict.bad_naming = <<name>> /\ rebuilt = name

\* C4: a name with fewer segments than the template has mandatory parts goes
\* whole into the 'name' category of the first part that declares 'name';
\* every other category of every part is empty.
FirstNamePart ==
  CHOOSE i \in 0..(PartCount - 1) :
    /\ \E j \in 1..Len(Conf.parts[i + 1]) : Conf.parts[i + 1][j] = "name"
    /\ \A h \in 0..(i - 1) : \A j \in 1..Len(Conf.parts[h + 1]) :
         Conf.parts[h + 1][j] # "name"

C4_UnderfilledAssignment ==
  (Inspected /\ Underfilled(name)) =>
    /\ part_dict.bad_naming = <<>>
    /\ Len(part_dict.parts) = PartCount
    /\ \A i \in 0..(PartCount - 1) :
         /\ KeyList(Part(part_dict, i)) = Conf.parts[i + 1]
         /\ \A j \in 1..Len(Part(part_dict, i)) :
              Part(part_dict, i)[j].v =
                IF i = FirstNamePart /\ Part(part_dict, i)[j].k = "name"
                THEN name ELSE <<>>

C4_Witness ==
  /\ pc = "inspected" /\ Underfilled(name) /\ preset = 5
  /\ name = <<"L","_","h","i">>
  /\ Get(Part(part_dict, 2), "name") = name

\* C5: for every name with fewer segments than the template has mandatory
\* parts, rebuilt_name(inspect_name_structure(n)) = n, also when the name
\* holds, starts with or ends with underscores.
C5_UnderfilledPassthrough ==
  (pc = "rebuilt" /\ Underfilled(name)) => rebuilt = name

\* C6: the value of numerical_inc is empty or exactly the configured number
\* of digits, and a segment of one digit less or one digit more gives no
\* numerical_inc at all.
C6_NumericExactness ==
  Inspected =>
    \A i \in 0..(PartCount - 1) :
      "numerical_inc" \in Keys(Part(part_dict, i)) =>
        LET value == Get(Part(part_dict, i), "numerical_inc")
            width == Conf.INC_NUMBER_OF_DIGITS
        IN /\ value = <<>> \/ (Len(value) = width /\ IsDigitStr(value))
           /\ (Exact(name) /\ IsDigitStr(Split(name)[i + 1])
                 /\ Len(Split(name)[i + 1]) \in {width - 1, width + 1})
                => value = <<>>

Candidate(inc) ==
  rebuilt_name(SetCat(part_dict, found_index,
                      IF branch = "alphabetical" THEN "alphabetical_inc"
                      ELSE "numerical_inc",
                      IF branch = "alphabetical" THEN Chr(inc)
                      ELSE ZeroPad(inc, Conf.INC_NUMBER_OF_DIGITS)))

\* C7: when rename_non_unique_name returns from the numerical (alphabetical)
\* loop, the short name it returns is the rebuilt name with the smallest
\* value, counting from 1 zero-padded (from "A"), whose long name does not
\* exist in the scene: every smaller value gives a long name that exists.
C7_LeastFreeIncrement ==
  (pc = "set_new_long_name" /\ branch \in {"alphabetical", "numerical"}) =>
    LET inc == IF branch = "alphabetical" THEN a_inc ELSE n_inc
        first == IF branch = "alphabetical" THEN OrdA ELSE 1
    IN /\ name = Candidate(inc)
       /\ Sibling(old_long_name, name) \notin existing
       /\ \A smaller \in first..(inc - 1) :
            Sibling(old_long_name, Candidate(smaller)) \in existing

\* with a_001 .. a_010 in the scene, a_011 is returned
C7_Witness ==
  /\ pc = "set_new_long_name" /\ branch = "numerical" /\ preset = 6
  /\ Cardinality(existing) = DenseTaken
  /\ n_inc = DenseTaken + 1
  /\ name = <<"a","_">> \o ZeroPad(DenseTaken + 1, DefaultNumIncLenght)
  /\ Sibling(old_long_name, name) \notin existing

\* C8: whichever loop rename_non_unique_name returns from, the long name made
\* of the parent path and the returned short name is the last one asked about
\* and does not exist in the scene; and finish_editing with check_unique never
\* asks the scene to rename onto a long name that exists (so none it saw
\* existing), its own apart.
C8_UniquenessPostcondition ==
  /\ (pc = "set_new_long_name" /\ branch # "none") =>
       /\ long_name = RenameTarget(old_long_name, name)
       /\ long_name \notin existing
       /\ long_name \notin observed
  /\ (pc = "set_new_long_name" /\ check_unique) =>
       \/ RenameTarget(old_long_name, name) = old_long_name
       \/ RenameTarget(old_long_name, name) \notin existing
  /\ (pc \in {"done", "raised"} /\ check_unique /\ requested # <<>>) =>
       requested = old_long_name \/ requested \notin observed

\* "a" and "a1" are taken under the group: the object is renamed to "a2"
C8_Witness ==
  /\ pc = "done" /\ check_unique /\ branch = "digits"
  /\ orig = <<"a">>
  /\ observed = { <<"|","g","|","a">>, <<"|","g","|","a","1">> }
  /\ requested = <<"|","g","|","a","2">>
  /\ item_data = requested /\ requested \in existing

UnrecognizedToken(text) ==
  \E i \in 1..Len(text) : \E j \in (i + 1)..Len(text) :
    /\ text[i] = "[" /\ text[j] = "]"
    /\ \A k \in (i + 1)..(j - 1) : text[k] \notin {"[", "]"}
    /\ \A c \in 1..Len(valid_categories) : SubSeq(text, i, j) # valid_categories[c]

\* distinct categories joined by single underscores, [name] among them
WellFormedTexts ==
  LET n == Len(valid_categories)
      one == { << valid_categories[i] >> : i \in 1..n }
      two == { << valid_categories[p[1]], valid_categories[p[2]] >> :
                 p \in { q \in (1..n) \X (1..n) : q[1] # q[2] } }
  IN { Join(tokens) : tokens \in { t \in one \cup two :
                                     \E i \in 1..Len(t) : t[i] = NameToken } }

StructureSet == pc \in {"refused", "default", "validated", "compiled"}

SettlesStructure ==
  /\ (~Contains(entry_structure, NameToken) \/ UnrecognizedToken(entry_structure))
       => (structure = BadCharacters /\ pc = "refused")
  /\ entry_structure \in WellFormedTexts
       => (structure = entry_structure /\ pc \in {"validated", "compiled"})

\* C11 as stated, of every text of the entry: a text without [name], or with
\* a bracket token that is no category, is refused; distinct categories
\* joined by single underscores, [name] among them, are returned unchanged.
C11_TemplateValidationAnyText == StructureSet => SettlesStructure

\* C11: the same, of every text that is not empty once its leading and
\* trailing underscores are stripped.
C11_TemplateValidation ==
  (StructureSet /\ Strip(entry_structure) # <<>>) => SettlesStructure

C11_Witness ==
  /\ pc = "refused"
  /\ entry_structure = <<"[","f","o","o","]","_">> \o NameToken
  /\ structure = BadCharacters

\* C12: under a structure no part of which declares 'name',
\* inspect_name_structure raises and returns no PartDict, whatever the number
\* of segments of the name.
C12_MalformedStructureRaises ==
  (preset \in MalformedPresets /\ pc # "edit") => pc = "raised"

\* the PartDict equal to pd but for the category, which holds the value in
\* every part that declares it
WithCategory(pd, c, value) ==
  [ parts |-> [ i \in 1..Len(pd.parts) |->
                  [ j \in 1..Len(pd.parts[i]) |->
                      IF pd.parts[i][j].k = c THEN [k |-> c, v |-> value]
                      ELSE pd.parts[i][j] ] ],
    bad_naming |-> pd.bad_naming, err |-> pd.err ]

CategoryWritten == category # "none" /\ pc \in {"edited", "renamed", "raised"}

\* C13: when the inspection of the name has no top-level 'bad_naming', the
\* edit of a category does not raise, leaves a PartDict equal to the
\* inspection but for the edited category, which holds the new value in
\* every part declaring it, and produces rebuilt_name of that PartDict.
C13_CategoryEdit ==
  (CategoryWritten /\ inspect_name_structure(Conf, name).bad_naming = <<>>) =>
    /\ pc # "raised"
    /\ part_dict = WithCategory(inspect_name_structure(Conf, name), category, new_value)
    /\ pc = "renamed" =>
         rebuilt = rebuilt_name(WithCategory(inspect_name_structure(Conf, name),
                                             category, new_value))

\* "hi_aLt_001" under [symmetry][type][zoning]_[name]_[orientation][numerical_inc]:
\* the name becomes "lo", the type and the increment stay
C13_Witness ==
  /\ pc = "renamed" /\ preset = 10 /\ category = "name" /\ new_value = <<"l","o">>
  /\ name = <<"h","i","_","a","L","t","_","0","0","1">>
  /\ rebuilt = <<"h","i","_","l","o","_","0","0","1">>
  /\ inspect_name_structure(Conf, name).bad_naming = <<>>

\* C14: the edit of a category of a name with more segments than the
\* structure has parts never raises and produces the name unchanged.
C14_OverfilledEdit ==
  (CategoryWritten /\ Overfilled(name)) =>
    /\ pc # "raised"
    /\ pc = "renamed" => rebuilt = name

\* the text of each part some value of which is not empty
RECURSIVE NonEmptyPartTexts(_)
NonEmptyPartTexts(parts) ==
  IF parts = <<>> THEN <<>>
  ELSE (IF PartValues(Head(parts)) = <<>> THEN <<>> ELSE << PartValues(Head(parts)) >>)
       \o NonEmptyPartTexts(Tail(parts))

NoUnderscoreValue(pd) ==
  \A i \in 1..Len(pd.parts) : \A j \in 1..Len(pd.parts[i]) :
    \A c \in 1..Len(pd.parts[i][j].v) : pd.parts[i][j].v[c] # "_"

\* C15: rebuilt_name of a PartDict without top-level 'bad_naming' whose values
\* hold no underscore is the texts of its non-empty parts joined by single
\* underscores: no underscore first or last, no two underscores in a row,
\* nothing for a part whose values are all empty.
C15_OptionalPartOmission ==
  (pc = "rebuilt" /\ part_dict.bad_naming = <<>> /\ NoUnderscoreValue(part_dict)) =>
    /\ rebuilt = Join(NonEmptyPartTexts(part_dict.parts))
    /\ rebuilt # <<>> => (Head(rebuilt) # "_" /\ rebuilt[Len(rebuilt)] # "_")
    /\ \A i \in 1..(Len(rebuilt) - 1) : ~(rebuilt[i] = "_" /\ rebuilt[i + 1] = "_")

\* [symmetry][type][zoning]_[name]_[orientation][numerical_inc] with the type
\* and the numerical increment alone: the part of the name gives nothing
C15_Witness ==
  /\ pc = "rebuilt" /\ preset = 10 /\ round = 1
  /\ NoUnderscoreValue(part_dict)
  /\ PartValues(part_dict.parts[1]) = <<"a">>
  /\ PartValues(part_dict.parts[2]) = <<>>
  /\ PartValues(part_dict.parts[3]) = <<"a">>
  /\ rebuilt = <<"a","_","a">>

\* the scene refused the rename
RenameFailed == pc = "raised" /\ requested # <<>>

\* C16: when the scene refuses the rename, finish_editing ends there with the
\* error (nothing is tried again), and the stored long name of the item, its
\* displayed text and the stored path of its child are what they were before
\* the call.
C16_RenameFailureLeavesState ==
  /\ [](RenameFailed =>
          /\ item_data = old_long_name
          /\ item_text = inspect_name_structure(Conf, RPartition(old_long_name)[3])
          /\ child_data = ChildOf(old_long_name))
  /\ [][RenameFailed => (pc' = "raised" /\ requested' = requested /\ existing' = existing)]_vars

\* the name was free when finish_editing asked, and taken when it renamed
C16_Witness ==
  /\ RenameFailed /\ check_unique
  /\ requested \in existing /\ requested \notin observed
  /\ requested # old_long_name
  /\ item_data = old_long_name /\ child_data = ChildOf(old_long_name)

\* C17: every value rename_non_unique_name writes into alphabetical_inc is one
\* of the letters "A".."Z", and every value it writes into numerical_inc has
\* exactly the configured number of digits.
C17_IncrementsInCandidateSpace ==
  /\ (pc = "while_alphabetical" \/ branch = "alphabetical") =>
       \E i \in 1..Len(Letters) :
         Get(Part(part_dict, found_index), "alphabetical_inc") = << Letters[i] >>
  /\ (pc = "while_numerical" \/ branch = "numerical") =>
       /\ Len(Get(Part(part_dict, found_index), "numerical_inc"))
            = Conf.INC_NUMBER_OF_DIGITS
       /\ IsDigitStr(Get(Part(part_dict, found_index), "numerical_inc"))

\* the index of the part that declares 'name'
NamePart ==
  CHOOSE i \in 0..(PartCount - 1) : "name" \in Keys(Part(EmptyPartDict(Conf), i))

\* the values of the categories of the keys, in that order
RECURSIVE ValuesOf(_, _)
ValuesOf(part, keys) ==
  IF keys = <<>> THEN <<>> ELSE Get(part, Head(keys)) \o ValuesOf(part, Tail(keys))

\* C18: for a name with as many segments as the structure has parts, the
\* values of the categories of the part that declares 'name', concatenated in
\* declared order, are the segment of that part: what is peeled before the
\* name, the name, and what is peeled after it partition the segment.
C18_NamePartPartition ==
  (Inspected /\ round = 1 /\ Exact(name)) =>
    ValuesOf(Part(part_dict, NamePart), Conf.parts[NamePart + 1])
      = Split(name)[NamePart + 1]

\* M <= N < P: the segments of the name are dealt out to the parts
Traversed(n) == ~Underfilled(n) /\ NameLenght(n) < PartCount

\* the parts that do not declare 'name' but declare a mandatory category
AnchorParts ==
  { i \in 0..(PartCount - 1) :
      /\ \A j \in 1..Len(Conf.parts[i + 1]) : Conf.parts[i + 1][j] # "name"
      /\ \E j \in 1..Len(Conf.parts[i + 1]) : Conf.parts[i + 1][j] \in Conf.mandatory }

\* the parts all of whose categories are optional
OptionalOnlyParts ==
  { i \in 0..(PartCount - 1) :
      \A j \in 1..Len(Conf.parts[i + 1]) : Conf.parts[i + 1][j] \in Conf.optional }

\* C19: a part that does not declare 'name' but declares another mandatory
\* category never holds a 'bad_naming' entry, with N == P and with M <= N < P:
\* what its other categories do not match goes to the mandatory category, so
\* that with N == P the values of the part make up its segment.
C19_AnchorAbsorbsRemainder ==
  (Inspected /\ round = 1 /\ (Exact(name) \/ Traversed(name))) =>
    \A i \in AnchorParts :
      /\ "bad_naming" \notin Keys(Part(part_dict, i))
      /\ Exact(name) =>
           ValuesOf(Part(part_dict, i), Conf.parts[i + 1]) = Split(name)[i + 1]

\* C20: a part whose categories are all optional never holds a 'bad_naming'
\* entry, with N == P and with M <= N < P; with N == P, when its categories
\* do not match the whole segment, all of them are blank.
C20_OptionalPartLeftover ==
  (Inspected /\ round = 1 /\ (Exact(name) \/ Traversed(name))) =>
    \A i \in OptionalOnlyParts :
      /\ "bad_naming" \notin Keys(Part(part_dict, i))
      /\ Exact(name) =>
           \/ ValuesOf(Part(part_dict, i), Conf.parts[i + 1]) = Split(name)[i + 1]
           \/ \A j \in 1..Len(Part(part_dict, i)) : Part(part_dict, i)[j].v = <<>>

\* the parts whose 'name' category holds a value that is not empty
NameHolders(pd) ==
  { i \in 0..(Len(pd.parts) - 1) :
      /\ "name" \in Keys(Part(pd, i))
      /\ Get(Part(pd, i), "name") # <<>> }

\* C21: for a name that is not empty and has no more segments than the
\* structure has parts, inspect_name_structure returns a PartDict exactly one
\* part of which holds a 'name' category with a value that is not empty.
C21_NameCategoryInvariant ==
  (Inspected /\ round = 1 /\ name # <<>> /\ ~Overfilled(name)) =>
    Cardinality(NameHolders(part_dict)) = 1

\* s is made of values of the list, one after the other
RECURSIVE IsRun(_, _)
IsRun(s, list) ==
  \/ s = <<>>
  \/ \E i \in 1..Len(list) :
       StartsWith(s, list[i]) /\ IsRun(DropFirst(s, Len(list[i])), list)

\* the part of the fragment of n characters at the anchored end
AnchoredEnd(n) ==
  IF from_start THEN SubSeq(fragment, 1, n)
  ELSE SubSeq(fragment, Len(fragment) - n + 1, Len(fragment))

\* C22: separate_value_recursive returns (value, remainder) where value is
\* the longest run of consecutive values of the list at the anchored end of
\* the fragment, and value + remainder (start) or remainder + value (end) is
\* the fragment.
C22_RecursivePeel ==
  pc = "peeled" =>
    /\ (IF from_start THEN separated[1] \o separated[2]
                      ELSE separated[2] \o separated[1]) = fragment
    /\ separated[1] = AnchoredEnd(Len(separated[1]))
    /\ IsRun(separated[1], candidates)
    /\ \A n \in (Len(separated[1]) + 1)..Len(fragment) :
         ~IsRun(AnchoredEnd(n), candidates)

\* the places of the list whose value the fragment starts (ends) with
Matches ==
  { i \in 1..Len(candidates) :
      IF from_start THEN StartsWith(fragment, candidates[i])
      ELSE EndsWith(fragment, candidates[i]) }

FirstMatch == CHOOSE i \in Matches : \A j \in Matches : i <= j

\* C23: separate_value returns the first value of the list, in list order,
\* that the fragment starts with (start) or ends with (end), with the fragment
\* less that value's characters; ('', fragment) when no value matches.
C23_FirstMatchInOrder ==
  pc = "separated" =>
    IF Matches = {} THEN separated = << <<>>, fragment >>
    ELSE /\ separated[1] = candidates[FirstMatch]
         /\ separated[2] =
              (IF from_start
               THEN SubSeq(fragment, Len(candidates[FirstMatch]) + 1, Len(fragment))
               ELSE SubSeq(fragment, 1, Len(fragment) - Len(candidates[FirstMatch])))

\* "ab" is listed after its prefix "a": "a" is returned
C23_Witness ==
  /\ pc = "separated"
  /\ from_start
  /\ fragment = <<"a","b","a">>
  /\ candidates = << <<"a">>, <<"a","b">> >>
  /\ separated = << <<"a">>, <<"b","a">> >>

\* the number of underscores of the text that no bracket encloses
OutsideUnderscores(text) ==
  Cardinality({ i \in 1..Len(text) :
    /\ text[i] = "_"
    /\ Cardinality({ k \in 1..(i - 1) : text[k] = "[" })
         = Cardinality({ k \in 1..(i - 1) : text[k] = "]" }) })

\* the text of a part that lists the given categories
RECURSIVE PartText(_)
PartText(categories) ==
  IF categories = <<>> THEN <<>>
  ELSE <<"[">> \o Head(categories) \o <<"]">> \o PartText(Tail(categories))

RECURSIVE PartTexts(_)
PartTexts(parts) ==
  IF parts = <<>> THEN <<>> ELSE << PartText(Head(parts)) >> \o PartTexts(Tail(parts))

\* C24: the structure is split on the underscores outside the brackets only:
\* the number of parts is one plus the number of those underscores, each part
\* lists its categories from left to right (the parts written back as text,
\* joined by underscores, are the structure), and the default structure
\* gives the 4 parts [symmetry], [type],
\* [name, zoning, orientation, alphabetical_inc], [numerical_inc].
C24_BracketAwareSplit ==
  pc = "compiled" =>
    /\ Len(name_parts) = 1 + OutsideUnderscores(get_user_name_structure(structure))
    /\ Join(PartTexts(name_parts)) = get_user_name_structure(structure)
    /\ structure = <<>> =>
         name_parts = << << CategoryWord("symmetry") >>, << CategoryWord("type") >>,
                         << CategoryWord("name"), CategoryWord("zoning"),
                            CategoryWord("orientation"), AlphabeticalIncKey >>,
                         << NumericalIncKey >> >>

C24_Witness ==
  /\ pc = "compiled"
  /\ structure = NameToken \o <<"_","[">> \o NumericalIncKey \o <<"]">>
  /\ name_parts = << << CategoryWord("name") >>, << NumericalIncKey >> >>

\* some part of the PartDict declares the category
Declares(pd, c) == \E i \in 0..(Len(pd.parts) - 1) : c \in Keys(Part(pd, i))

\* the value the category has in the PartDict, in whichever part declares it
ValueIn(pd, c) ==
  Get(Part(pd, CHOOSE i \in 0..(Len(pd.parts) - 1) : c \in Keys(Part(pd, i))), c)

\* the loop rename_non_unique_name is in or returned from
Resolving ==
  IF pc = "while_alphabetical" THEN "alphabetical"
  ELSE IF pc = "while_numerical" THEN "numerical"
  ELSE IF pc = "while_digits" THEN "digits"
  ELSE branch

\* C25: rename_non_unique_name changes alphabetical_inc whenever some part of
\* the PartDict declares it, wherever the two increments are in the structure,
\* and then leaves numerical_inc as the inspection gave it; it changes
\* numerical_inc only when no part declares alphabetical_inc, and appends a
\* digit only when no part declares either.
C25_IncrementSelection ==
  Resolving # "none" =>
    /\ Declares(part_dict, "alphabetical_inc") =>
         /\ Resolving = "alphabetical"
         /\ Declares(part_dict, "numerical_inc") =>
              ValueIn(part_dict, "numerical_inc")
                = ValueIn(inspect_name_structure(Conf, orig), "numerical_inc")
    /\ Resolving = "numerical" => ~Declares(part_dict, "alphabetical_inc")
    /\ Resolving = "digits" =>
         /\ ~Declares(part_dict, "alphabetical_inc")
         /\ ~Declares(part_dict, "numerical_inc")

\* the long name rename_non_unique_name is given: the new name beside the item
GivenLongName == Sibling(old_long_name, orig)

EndsInDigit(s) == s # <<>> /\ s[Len(s)] \in Digits

\* the path without its final digit, and the first number tried
DigitBase == IF EndsInDigit(GivenLongName) THEN DropLast(GivenLongName, 1) ELSE GivenLongName
FirstDigit ==
  IF EndsInDigit(GivenLongName) THEN IntOfDigit(GivenLongName[Len(GivenLongName)]) + 1 ELSE 1

\* C26: when the structure declares no increment, the candidate
\* rename_non_unique_name is trying or has returned is base + str(k), where
\* base is the path without its final digit and k the number reached, every
\* base + str(j) with k0 <= j < k being taken; with k of two digits as well.
C26_RawDigitFallback ==
  (pc = "while_digits" \/ (pc = "set_new_long_name" /\ branch = "digits")) =>
    /\ suffix >= FirstDigit
    /\ long_name = DigitBase \o Str(suffix)
    /\ \A j \in FirstDigit..(suffix - 1) : DigitBase \o Str(j) \in existing

\* the calls made for the selected item of place k and its descendants
GroupCalls(k) == SelectSeq(renamed, LAMBDA c : c.item[1] = k)

\* the items of the list that are no mesh, in order
NonMesh(items) == SelectSeq(items, LAMBDA i : i.type # "mesh")

\* the calls give the items, in order, the letters from 'A' on
LettersFromA(calls, items) ==
  /\ Len(calls) = Len(NonMesh(items))
  /\ \A i \in 1..Len(calls) :
       /\ calls[i].item = NonMesh(items)[i].item
       /\ calls[i].letter = Chr(OrdA + i - 1)

\* C27: with "A to Z" and a letter in the entry, in the mode "selects and
\* childs" every selected item starts from 'A' and the letter advances
\* through its children; in the mode "selections" the k-th selected item that
\* is no mesh receives the k-th letter.
C27_AToZAcrossSelections ==
  (pc = "batch_done" /\ inc_option = "A to Z" /\ letter_entry # <<>>) =>
    IF rename_mode = "selections"
    THEN LettersFromA(renamed, SelectedOnly(selected_items, 1))
    ELSE \A k \in 1..Len(selected_items) :
           LettersFromA(GroupCalls(k), items_to_rename(k, selected_items[k]))

\* the characters of the segments of a name, one segment after the other
Characters(n) == SelectSeq(n, LAMBDA c : c # "_")

\* C28: for a name with M <= N < P segments, the characters of its segments
\* are those of the segments of rebuilt_name(inspect_name_structure(n)), in
\* the same order, and the rebuilt name is n when n has no empty segment.
C28_NoSegmentDropped ==
  (pc = "rebuilt" /\ round = 1 /\ Traversed(name)) =>
    /\ Characters(rebuilt) = Characters(name)
    /\ NoEmptySegment(name) => rebuilt = name

\* the matcher of the category accepts the value: an entry of its vocabulary,
\* an uppercase letter, exactly the configured number of digits
InList(list, v) == \E i \in 1..Len(list) : list[i] = v

Accepts(C, c, v) ==
  CASE c = "symmetry" -> InList(C.SYMMETRY_OPTIONS, v)
    [] c = "type" -> InList(C.ALL_TYPES_DICT, v)
    [] c = "zoning" -> InList(C.ZONING_SINGLE_DICT, v)
    [] c = "orientation" -> InList(C.ORIENT_SINGLE_DICT, v)
    [] c = "alphabetical_inc" -> InList(LetterValues, v)
    [] c = "numerical_inc" -> IsDigitStr(v) /\ Len(v) = C.INC_NUMBER_OF_DIGITS
    [] OTHER -> FALSE

\* C29: when a category the structure declares is given a value its matcher
\* accepts, in a name that has no more segments than the structure has parts,
\* the inspection of the name so produced gives the category that value.
C29_EditVisibleOnReinspection ==
  (/\ category # "none"
   /\ pc \in {"reinspected", "raised"}
   /\ ~Overfilled(orig)
   /\ Declares(EmptyPartDict(Conf), category)
   /\ Accepts(Conf, category, new_value)) =>
    /\ pc = "reinspected"
    /\ part_dict.bad_naming = <<>>
    /\ ValueIn(part_dict, category) = new_value

\* what the path of a descendant holds after the long name of the item
Below(path) == DropFirst(path, Len(old_long_name))

\* C30: after set_new_long_name has renamed the item, the path stored for
\* each descendant is the new long name followed by what came after the old
\* long name in its previous path, also when the old long name occurs again
\* further in that path.
C30_DescendantPathsFollow ==
  pc = "done" =>
    /\ child_data = item_data \o Below(ChildOf(old_long_name))
    /\ descendant_data = item_data \o Below(DescendantOf(old_long_name))
====
